---- MODULE Spec2Model ----
(***************************************************************************)
(* Model of src/lib/pdfParser.ts: the minimal PDF structure parser.        *)
(*                                                                         *)
(* A buffer is a sequence of byte values (0..255).  Source offsets are     *)
(* 0-based; byte i of the source is b[i+1] here.  A JavaScript string made *)
(* by bytesToStr is the same kind of sequence (one char code per byte).    *)
(* Numbers produced by parseFloat are kept in fixed point: a point value v *)
(* is the integer v * PtScale.  NaN, and null where the source returns     *)
(* "number | null", are two reserved integers no bounded input produces;   *)
(* every comparison the source makes on a Number tests for them first,     *)
(* with the outcome JavaScript gives.  A "record | null" value is a        *)
(* sequence: <<>> for null, <<r>> for the record r.                        *)
(***************************************************************************)
EXTENDS Integers, Sequences, FiniteSets, TLC

NaN == 0 - 2147483647
NULL == 0 - 2147483646

\* ---------------------------------------------------------------------
\* JavaScript primitives used by the parser
\* ---------------------------------------------------------------------

Digits == 48..57
\* \s of a JavaScript RegExp and String.prototype.trim, on char codes < 256
WhiteSpace == {9, 10, 11, 12, 13, 32, 160}
\* the three bytes findStartXref and isClassicXref skip
CrLfSp == {13, 10, 32}
\* [\d.-]
NumChars == Digits \cup {45, 46}

Min(S) == CHOOSE x \in S : \A y \in S : x <= y
Max(S) == CHOOSE x \in S : \A y \in S : x >= y
Abs(x) == IF x < 0 THEN -x ELSE x

\* s.substring(from, to) on 0-based positions
Slice(s, from, to) == SubSeq(s, from + 1, to)

\* does the literal pat occur in s at 0-based position p
MatchAt(s, p, pat) ==
  /\ p >= 0
  /\ p + Len(pat) <= Len(s)
  /\ \A k \in 1..Len(pat) : s[p + k] = pat[k]

\* s.indexOf(pat) restricted to positions >= from; -1 when absent
IndexOfFrom(s, pat, from) ==
  LET hits == {p \in from..(Len(s) - Len(pat)) : MatchAt(s, p, pat)}
  IN IF hits = {} THEN -1 ELSE Min(hits)

IndexOf(s, pat) == IndexOfFrom(s, pat, 0)

\* first 0-based position >= p whose char is not in cls (greedy cls*)
RECURSIVE SkipWhile(_, _, _)
SkipWhile(s, p, cls) ==
  IF p < Len(s) /\ s[p + 1] \in cls THEN SkipWhile(s, p + 1, cls) ELSE p

\* last 0-based position e <= q such that s[p..e) has no trailing cls char
RECURSIVE SkipBack(_, _, _)
SkipBack(s, q, cls) ==
  IF q > 0 /\ s[q] \in cls THEN SkipBack(s, q - 1, cls) ELSE q

\* String.prototype.trim
Trim(s) ==
  LET a == SkipWhile(s, 0, WhiteSpace)
      b == SkipBack(s, Len(s), WhiteSpace)
  IN IF a >= b THEN <<>> ELSE Slice(s, a, b)

\* value of a run of decimal digits (0 for the empty run)
RECURSIVE DigitsVal(_)
DigitsVal(s) ==
  IF s = <<>> THEN 0
  ELSE 10 * DigitsVal(SubSeq(s, 1, Len(s) - 1)) + (s[Len(s)] - 48)

\* parseInt(s, 10): leading white space, optional sign, longest digit prefix
parseInt(s) ==
  LET a == SkipWhile(s, 0, WhiteSpace)
      neg == a < Len(s) /\ s[a + 1] = 45
      b == IF a < Len(s) /\ s[a + 1] \in {43, 45} THEN a + 1 ELSE a
      e == SkipWhile(s, b, Digits)
  IN IF e = b THEN NaN
     ELSE IF neg THEN 0 - DigitsVal(Slice(s, b, e)) ELSE DigitsVal(Slice(s, b, e))

\* decimal places kept by the fixed-point representation of a Number
FracDigits == 3

RECURSIVE Pow10(_)
Pow10(n) == IF n = 0 THEN 1 ELSE 10 * Pow10(n - 1)

PtScale == Pow10(FracDigits)

\* the fixed-point value of the whole number n
Pt(n) == n * PtScale

\* parseFloat(s) for s made of [\d.-]: optional '-', digits, optional '.'
\* and digits; the longest such prefix with at least one digit, else NaN.
parseFloat(s) ==
  LET neg == Len(s) > 0 /\ s[1] = 45
      b == IF neg THEN 1 ELSE 0
      ie == SkipWhile(s, b, Digits)
      dot == ie < Len(s) /\ s[ie + 1] = 46
      fe == IF dot THEN SkipWhile(s, ie + 1, Digits) ELSE ie
      fs == IF dot THEN Slice(s, ie + 1, fe) ELSE <<>>
      fk == IF Len(fs) > FracDigits THEN SubSeq(fs, 1, FracDigits) ELSE fs
      mag == DigitsVal(Slice(s, b, ie)) * PtScale
             + DigitsVal(fk) * Pow10(FracDigits - Len(fk))
  IN IF ie = b /\ Len(fs) = 0 THEN NaN
     ELSE IF neg THEN 0 - mag ELSE mag

\* String.prototype.split(/\r?\n/)
RECURSIVE SplitLines(_)
SplitLines(s) ==
  LET nl == IndexOf(s, <<10>>)
  IN IF nl < 0 THEN <<s>>
     ELSE LET cut == IF nl > 0 /\ s[nl] = 13 THEN nl - 1 ELSE nl
          IN <<Slice(s, 0, cut)>> \o SplitLines(Slice(s, nl + 1, Len(s)))

\* String.prototype.split(/\s+/)
RECURSIVE SplitWs(_)
SplitWs(s) ==
  LET hits == {p \in 0..(Len(s) - 1) : s[p + 1] \in WhiteSpace}
  IN IF hits = {} THEN <<s>>
     ELSE LET a == Min(hits)
              b == SkipWhile(s, a, WhiteSpace)
          IN <<Slice(s, 0, a)>> \o SplitWs(Slice(s, b, Len(s)))

\* ---------------------------------------------------------------------
\* Literals of the parser
\* ---------------------------------------------------------------------

\* "%%EOF"
EOF_MARKER == <<37, 37, 69, 79, 70>>
\* "startxref"
STARTXREF_MARKER == <<115, 116, 97, 114, 116, 120, 114, 101, 102>>
\* "xref"
str_xref == <<120, 114, 101, 102>>
\* "%PDF-"
str_PDF == <<37, 80, 68, 70, 45>>
\* "/Root"
key_Root == <<47, 82, 111, 111, 116>>
\* "/Pages"
key_Pages == <<47, 80, 97, 103, 101, 115>>
\* "/Count"
key_Count == <<47, 67, 111, 117, 110, 116>>
\* "/Kids"
key_Kids == <<47, 75, 105, 100, 115>>
\* "/MediaBox"
key_MediaBox == <<47, 77, 101, 100, 105, 97, 66, 111, 120>>
\* "/Size"
key_Size == <<47, 83, 105, 122, 101>>
\* "/Length"
key_Length == <<47, 76, 101, 110, 103, 116, 104>>
\* "/W"
key_W == <<47, 87>>
\* "/Index"
key_Index == <<47, 73, 110, 100, 101, 120>>
\* "/Filter"
key_Filter == <<47, 70, 105, 108, 116, 101, 114>>
\* "/FlateDecode"
str_FlateDecode == <<47, 70, 108, 97, 116, 101, 68, 101, 99, 111, 100, 101>>
\* "obj"
str_obj == <<111, 98, 106>>
\* ">>"
str_dictEnd == <<62, 62>>
\* "stream"
str_stream == <<115, 116, 114, 101, 97, 109>>

\* a length test that lets a 99-byte buffer through
MIN_LENGTH_off == 100 - 1
MIN_LENGTH == 100
HEADER_LEN == 20
STARTXREF_WINDOW == 2048
XREF_TABLE_WINDOW == 4096
TRAILER_BEFORE == 2048
TRAILER_AFTER == 256
OBJECT_WINDOW == 16384
FALLBACK_WINDOW == 512 * 1024
MAX_PAGE_COUNT == 50000
POINTS_TO_PX_NUM == 96
POINTS_TO_PX_DEN == 72
DEFAULT_WIDTH_PT == 612
DEFAULT_HEIGHT_PT == 792

\* ---------------------------------------------------------------------
\* Header and trailer locator
\* ---------------------------------------------------------------------

bytesToStr(bytes, start, len) ==
  LET end == IF start + len < Len(bytes) THEN start + len ELSE Len(bytes)
  IN Slice(bytes, start, end)

\* PDF_HEADER.test(s): /%PDF-(\d+)\.(\d+)/ found anywhere in s
PDF_HEADER_test(s) ==
  \E p \in 0..(Len(s) - 1) :
    /\ MatchAt(s, p, str_PDF)
    /\ LET a == p + Len(str_PDF)
           b == SkipWhile(s, a, Digits)
       IN /\ b > a
          /\ b < Len(s) /\ s[b + 1] = 46
          /\ SkipWhile(s, b + 1, Digits) > b + 1

\* the scan stopping at the first marker
findLastEof_first(bytes) ==
  LET hits == {i \in 0..(Len(bytes) - Len(EOF_MARKER)) :
                 MatchAt(bytes, i, EOF_MARKER)}
  IN IF hits = {} THEN -1 ELSE Min(hits)

findLastEof(bytes) ==
  LET hits == {i \in 0..(Len(bytes) - Len(EOF_MARKER)) :
                 MatchAt(bytes, i, EOF_MARKER)}
  IN IF hits = {} THEN -1 ELSE Max(hits)

findStartXref(bytes, beforeEof) ==
  LET searchStart == IF beforeEof - STARTXREF_WINDOW > 0
                     THEN beforeEof - STARTXREF_WINDOW ELSE 0
      hits == {i \in searchStart..(beforeEof - 1) :
                 /\ i - Len(STARTXREF_MARKER) >= 0
                 /\ MatchAt(bytes, i - Len(STARTXREF_MARKER), STARTXREF_MARKER)}
  IN IF hits = {} THEN -1
     ELSE LET i == Max(hits)
              pre == Slice(bytes, 0, beforeEof)
              j == SkipWhile(pre, i, CrLfSp)
              e == SkipWhile(pre, j, Digits)
          IN IF e = j THEN -1 ELSE DigitsVal(Slice(pre, j, e))

isClassicXref(bytes, startOffset) ==
  LET i == SkipWhile(bytes, startOffset, CrLfSp)
      s == bytesToStr(bytes, i, 6)
  IN /\ MatchAt(s, 0, str_xref)
     /\ (Len(s) = 4 \/ s[5] \in WhiteSpace)

\* ---------------------------------------------------------------------
\* Classic xref table
\* ---------------------------------------------------------------------

EmptyMap == [o \in {} |-> 0]

\* generation and tag made optional: /^(\d+)(\s+(\d+)\s+([nf]))?/, an
\* absent tag read as n
XREF_ENTRY_exec_offsetOnly(line) ==
  LET d1 == SkipWhile(line, 0, Digits)
      w1 == SkipWhile(line, d1, WhiteSpace)
      d2 == SkipWhile(line, w1, Digits)
      w2 == SkipWhile(line, d2, WhiteSpace)
  IN IF d1 = 0 THEN <<>>
     ELSE <<[offset |-> DigitsVal(Slice(line, 0, d1)),
             tag |-> IF /\ w1 > d1 /\ d2 > w1 /\ w2 > d2
                        /\ w2 < Len(line) /\ line[w2 + 1] \in {110, 102}
                     THEN line[w2 + 1] ELSE 110]>>

\* XREF_ENTRY.exec(line): /^(\d+)\s+(\d+)\s+([nf])/ ; <<>> when no match
XREF_ENTRY_exec(line) ==
  LET d1 == SkipWhile(line, 0, Digits)
      w1 == SkipWhile(line, d1, WhiteSpace)
      d2 == SkipWhile(line, w1, Digits)
      w2 == SkipWhile(line, d2, WhiteSpace)
  IN IF /\ d1 > 0 /\ w1 > d1 /\ d2 > w1 /\ w2 > d2
        /\ w2 < Len(line) /\ line[w2 + 1] \in {110, 102}
     THEN <<[offset |-> DigitsVal(Slice(line, 0, d1)), tag |-> line[w2 + 1]]>>
     ELSE <<>>

\* the tag of the entry not looked at
xrefSubsection_anyTag(lines, i, objStart, count) ==
  LET avail == Len(lines) - (i + 1)
      n == IF count < avail THEN count ELSE avail
      used == {k \in 0..(n - 1) :
                 LET m == XREF_ENTRY_exec(Trim(lines[i + 1 + k + 1]))
                 IN m # <<>>}
  IN [o \in {objStart + k : k \in used} |->
        XREF_ENTRY_exec(Trim(lines[i + 1 + (o - objStart) + 1]))[1].offset]

\* the entries one subsection adds: lines i+1 .. i+count of the chunk
xrefSubsection(lines, i, objStart, count) ==
  LET avail == Len(lines) - (i + 1)
      n == IF count < avail THEN count ELSE avail
      used == {k \in 0..(n - 1) :
                 LET m == XREF_ENTRY_exec(Trim(lines[i + 1 + k + 1]))
                 IN m # <<>> /\ m[1].tag = 110}
  IN [o \in {objStart + k : k \in used} |->
        XREF_ENTRY_exec(Trim(lines[i + 1 + (o - objStart) + 1]))[1].offset]

RECURSIVE xrefTableLoop(_, _, _)
xrefTableLoop(lines, i, map) ==
  IF i >= Len(lines) THEN map
  ELSE LET parts == SplitWs(Trim(lines[i + 1]))
           objStart == IF Len(parts) >= 2 THEN parseInt(parts[1]) ELSE NaN
           count == IF Len(parts) >= 2 THEN parseInt(parts[2]) ELSE NaN
       IN IF objStart # NaN /\ count # NaN /\ count >= 0
          THEN xrefTableLoop(lines, i + 1 + count,
                             xrefSubsection(lines, i, objStart, count) @@ map)
          ELSE xrefTableLoop(lines, i + 1, map)

parseXrefTable(bytes, startOffset) ==
  LET rest == Len(bytes) - startOffset
      chunk == bytesToStr(bytes, startOffset,
                          IF XREF_TABLE_WINDOW < rest THEN XREF_TABLE_WINDOW ELSE rest)
      lines == SplitLines(chunk)
      i == IF Trim(lines[1]) = str_xref THEN 1 ELSE 0
  IN xrefTableLoop(lines, i, EmptyMap)

\* ---------------------------------------------------------------------
\* Dictionary field extraction
\* ---------------------------------------------------------------------

\* /(\d+)\s*\d+\s*R/ anchored at p: <<[val, end]>> of the match, or <<>>.
\* The first group is the whole digit run when a second number follows it;
\* when only one digit run precedes R, backtracking splits that run and the
\* group is the run without its last digit.
RefMatchAt(s, p) ==
  LET d1 == SkipWhile(s, p, Digits)
      w1 == SkipWhile(s, d1, WhiteSpace)
      d2 == SkipWhile(s, w1, Digits)
      w2 == SkipWhile(s, d2, WhiteSpace)
  IN IF d1 = p THEN <<>>
     ELSE IF d2 > w1 /\ w2 < Len(s) /\ s[w2 + 1] = 82
          THEN <<[val |-> DigitsVal(Slice(s, p, d1)), end |-> w2 + 1]>>
     ELSE IF d1 - p >= 2 /\ w1 < Len(s) /\ s[w1 + 1] = 82
          THEN <<[val |-> DigitsVal(Slice(s, p, d1 - 1)), end |-> w1 + 1]>>
     ELSE <<>>

\* new RegExp(`/${key}\s*(\d+)\s*\d+\s*R`).exec(objStr): group 1 or NULL
parseDictGetRef(objStr, key) ==
  LET hits == {p \in 0..(Len(objStr) - Len(key)) :
                 /\ MatchAt(objStr, p, key)
                 /\ RefMatchAt(objStr, SkipWhile(objStr, p + Len(key), WhiteSpace)) # <<>>}
  IN IF hits = {} THEN NULL
     ELSE RefMatchAt(objStr, SkipWhile(objStr, Min(hits) + Len(key), WhiteSpace))[1].val

parseRootFromDict(dictStr) == parseDictGetRef(dictStr, key_Root)

\* the token [\d.-]+ after `/${key}\s*`, leftmost match; <<>> when none
NumberTokenAfter(objStr, key) ==
  LET hits == {p \in 0..(Len(objStr) - Len(key)) :
                 /\ MatchAt(objStr, p, key)
                 /\ LET a == SkipWhile(objStr, p + Len(key), WhiteSpace)
                    IN SkipWhile(objStr, a, NumChars) > a}
  IN IF hits = {} THEN <<>>
     ELSE LET a == SkipWhile(objStr, Min(hits) + Len(key), WhiteSpace)
          IN Slice(objStr, a, SkipWhile(objStr, a, NumChars))

parseDictGetNumber(objStr, key) ==
  LET tok == NumberTokenAfter(objStr, key)
  IN IF tok = <<>> THEN NULL ELSE parseFloat(tok)

\* the text between [ and the first ] after `/${key}\s*`, when it is not
\* empty: the group of /key\s*\[([^\]]+)\]/ ; <<>> when none
BracketAfter(objStr, key) ==
  LET inner(p) ==
        LET a == SkipWhile(objStr, p + Len(key), WhiteSpace)
            c == IndexOfFrom(objStr, <<93>>, a + 1)
        IN IF a < Len(objStr) /\ objStr[a + 1] = 91 /\ c > a + 1
           THEN Slice(objStr, a + 1, c) ELSE <<>>
      hits == {p \in 0..(Len(objStr) - Len(key)) :
                 MatchAt(objStr, p, key) /\ inner(p) # <<>>}
  IN IF hits = {} THEN <<>> ELSE inner(Min(hits))

\* the loop over refRe = /(\d+)\s*\d+\s*R/g
RECURSIVE refScan(_, _)
refScan(s, from) ==
  LET hits == {p \in from..(Len(s) - 1) : RefMatchAt(s, p) # <<>>}
  IN IF hits = {} THEN <<>>
     ELSE LET m == RefMatchAt(s, Min(hits))[1]
          IN <<m.val>> \o refScan(s, m.end)

parseDictGetRefArray(objStr, key) ==
  LET m == BracketAfter(objStr, key)
  IN IF m = <<>> THEN <<>> ELSE refScan(m, 0)

\* Math.round(pt * POINTS_TO_PX) on a fixed-point value
MathRoundPx(pt) ==
  IF pt = NaN THEN NaN
  ELSE (2 * pt * POINTS_TO_PX_NUM + POINTS_TO_PX_DEN * PtScale)
         \div (2 * POINTS_TO_PX_DEN * PtScale)

\* Math.abs(a - b)
AbsDiff(a, b) == IF a = NaN \/ b = NaN THEN NaN ELSE Abs(a - b)

\* x < 0 in place of x <= 0
LeqZero_strict(x) == x # NaN /\ x < 0

\* x <= 0 on Numbers (false for NaN)
LeqZero(x) == x # NaN /\ x <= 0

\* the four tokens of the MediaBox pattern anchored after "/MediaBox" at p
MediaBoxTokensAt(s, p) ==
  LET a0 == SkipWhile(s, p + Len(key_MediaBox), WhiteSpace)
      t1 == SkipWhile(s, a0 + 1, WhiteSpace)
      e1 == SkipWhile(s, t1, NumChars)
      t2 == SkipWhile(s, e1, WhiteSpace)
      e2 == SkipWhile(s, t2, NumChars)
      t3 == SkipWhile(s, e2, WhiteSpace)
      e3 == SkipWhile(s, t3, NumChars)
      t4 == SkipWhile(s, e3, WhiteSpace)
      e4 == SkipWhile(s, t4, NumChars)
      c == SkipWhile(s, e4, WhiteSpace)
  IN IF /\ a0 < Len(s) /\ s[a0 + 1] = 91
        /\ e1 > t1 /\ t2 > e1 /\ e2 > t2 /\ t3 > e2 /\ e3 > t3
        /\ t4 > e3 /\ e4 > t4
        /\ c < Len(s) /\ s[c + 1] = 93
     THEN <<Slice(s, t1, e1), Slice(s, t2, e2), Slice(s, t3, e3), Slice(s, t4, e4)>>
     ELSE <<>>

parseMediaBox(objStr) ==
  LET hits == {p \in 0..(Len(objStr) - Len(key_MediaBox)) :
                 MatchAt(objStr, p, key_MediaBox) /\ MediaBoxTokensAt(objStr, p) # <<>>}
  IN IF hits = {} THEN <<>>
     ELSE LET m == MediaBoxTokensAt(objStr, Min(hits))
              x0 == parseFloat(m[1])
              y0 == parseFloat(m[2])
              x1 == parseFloat(m[3])
              y1 == parseFloat(m[4])
              widthPt == AbsDiff(x1, x0)
              heightPt == AbsDiff(y1, y0)
          IN IF LeqZero(widthPt) \/ LeqZero(heightPt) THEN <<>>
             ELSE <<[widthPt |-> widthPt, heightPt |-> heightPt,
                     widthPx |-> MathRoundPx(widthPt),
                     heightPx |-> MathRoundPx(heightPt)]>>

\* ---------------------------------------------------------------------
\* Object access and the fallback scan
\* ---------------------------------------------------------------------

findTrailerBeforeXref(bytes, xrefOffset) ==
  LET start == IF xrefOffset - TRAILER_BEFORE > 0 THEN xrefOffset - TRAILER_BEFORE ELSE 0
  IN bytesToStr(bytes, start, xrefOffset - start + TRAILER_AFTER)

readObjectAt(bytes, offset) ==
  LET end == IF offset + OBJECT_WINDOW < Len(bytes) THEN offset + OBJECT_WINDOW
             ELSE Len(bytes)
  IN bytesToStr(bytes, offset, end - offset)

\* what parsePdfStructure resolves to: null or a PDFStructure
NullResult == [kind |-> "null", pageCount |-> 0, pageBoxes |-> <<>>]
Structure(pageCount, pageBoxes) ==
  [kind |-> "structure", pageCount |-> pageCount, pageBoxes |-> pageBoxes]

defaultBox ==
  [widthPt |-> Pt(DEFAULT_WIDTH_PT), heightPt |-> Pt(DEFAULT_HEIGHT_PT),
   widthPx |-> MathRoundPx(Pt(DEFAULT_WIDTH_PT)),
   heightPx |-> MathRoundPx(Pt(DEFAULT_HEIGHT_PT))]

\* /\/Count\s*(\d+)/ : the digits of the leftmost match, <<>> when none
CountMatch(str) ==
  LET hits == {p \in 0..(Len(str) - Len(key_Count)) :
                 /\ MatchAt(str, p, key_Count)
                 /\ LET a == SkipWhile(str, p + Len(key_Count), WhiteSpace)
                    IN SkipWhile(str, a, Digits) > a}
  IN IF hits = {} THEN <<>>
     ELSE LET a == SkipWhile(str, Min(hits) + Len(key_Count), WhiteSpace)
          IN Slice(str, a, SkipWhile(str, a, Digits))

\* the box loop running once too often
fallbackPageCountAndBoxes_extraBox(bytes) ==
  LET str == bytesToStr(bytes, 0,
                        IF Len(bytes) < FALLBACK_WINDOW THEN Len(bytes) ELSE FALLBACK_WINDOW)
      countMatch == CountMatch(str)
      pageCount == IF countMatch # <<>> THEN parseInt(countMatch) ELSE 0
  IN IF pageCount <= 0 \/ pageCount > MAX_PAGE_COUNT THEN NullResult
     ELSE Structure(pageCount, [i \in 1..(pageCount + 1) |-> defaultBox])

\* the lower bound tested with < instead of <=
fallbackPageCountAndBoxes_zero(bytes) ==
  LET str == bytesToStr(bytes, 0,
                        IF Len(bytes) < FALLBACK_WINDOW THEN Len(bytes) ELSE FALLBACK_WINDOW)
      countMatch == CountMatch(str)
      pageCount == IF countMatch # <<>> THEN parseInt(countMatch) ELSE 0
  IN IF pageCount < 0 \/ pageCount > MAX_PAGE_COUNT THEN NullResult
     ELSE Structure(pageCount, [i \in 1..pageCount |-> defaultBox])

fallbackPageCountAndBoxes(bytes) ==
  LET str == bytesToStr(bytes, 0,
                        IF Len(bytes) < FALLBACK_WINDOW THEN Len(bytes) ELSE FALLBACK_WINDOW)
      countMatch == CountMatch(str)
      pageCount == IF countMatch # <<>> THEN parseInt(countMatch) ELSE 0
  IN IF pageCount <= 0 \/ pageCount > MAX_PAGE_COUNT THEN NullResult
     ELSE Structure(pageCount, [i \in 1..pageCount |-> defaultBox])

\* ---------------------------------------------------------------------
\* Cross-reference stream
\* ---------------------------------------------------------------------

\* the 32-bit pattern readIntBE accumulates, as <<high 16 bits, low 16 bits>>
RECURSIVE readIntBEBits(_, _, _, _)
readIntBEBits(data, offset, numBytes, i) ==
  IF i = 0 \/ numBytes <= 0 THEN <<0, 0>>
  ELSE LET n == readIntBEBits(data, offset, numBytes, i - 1)
       IN IF offset + i - 1 < Len(data)
          THEN <<(n[1] % 256) * 256 + (n[2] \div 256),
                 (n[2] % 256) * 256 + data[offset + i]>>
          ELSE n

\* the value returned without n >>> 0: the pattern read as a signed integer
readIntBE_signed(data, offset, numBytes) ==
  LET n == readIntBEBits(data, offset, numBytes, numBytes)
  IN <<IF n[1] >= 32768 THEN n[1] - 65536 ELSE n[1], n[2]>>

\* n >>> 0, the pattern read as an unsigned integer: <<q, r>> stands for
\* q * 65536 + r
readIntBE(data, offset, numBytes) ==
  LET n == readIntBEBits(data, offset, numBytes, numBytes)
  IN <<n[1], n[2]>>

\* offsets from here on lie beyond every buffer and are kept as this one
MaxOffset == 1073741824

\* the Number <<q, r>> as stored in the map
NumberOf(u) ==
  IF u[1] >= MaxOffset \div 65536 THEN MaxOffset ELSE u[1] * 65536 + u[2]

\* Adler-32 halves and 16-bit byte orders of the zlib container
RECURSIVE AdlerA(_)
AdlerA(data) ==
  IF data = <<>> THEN 1
  ELSE (AdlerA(SubSeq(data, 1, Len(data) - 1)) + data[Len(data)]) % 65521
RECURSIVE AdlerB(_)
AdlerB(data) ==
  IF data = <<>> THEN 0
  ELSE (AdlerB(SubSeq(data, 1, Len(data) - 1)) + AdlerA(data)) % 65521
BE16(n) == <<n \div 256, n % 256>>
LE16(n) == <<n % 256, n \div 256>>

\* the zlib container around one final stored deflate block, as the
\* platform's inflate reads it: <<payload>>, or <<>> when it throws
Inflate(raw) ==
  LET len == IF Len(raw) >= 5 THEN raw[4] + 256 * raw[5] ELSE 0
      nlen == IF Len(raw) >= 7 THEN raw[6] + 256 * raw[7] ELSE 0
      payload == SubSeq(raw, 8, 7 + len)
  IN IF /\ Len(raw) = 11 + len
        /\ raw[1] % 16 = 8 /\ raw[1] \div 16 <= 7
        /\ (raw[1] * 256 + raw[2]) % 31 = 0
        /\ (raw[2] \div 32) % 2 = 0
        /\ raw[3] % 8 = 1
        /\ len + nlen = 65535
        /\ SubSeq(raw, 8 + len, 11 + len) = BE16(AdlerB(payload)) \o BE16(AdlerA(payload))
     THEN <<payload>> ELSE <<>>

\* flateDecode: <<bytes>> when the promise resolves, <<>> when it rejects
flateDecode(raw) == IF Len(raw) < 2 THEN <<raw>> ELSE Inflate(raw)

\* /^(\d+)\s+\d+\s+obj\s*/.exec(objStr) finds a match
ObjHeaderMatches(objStr) ==
  LET d1 == SkipWhile(objStr, 0, Digits)
      w1 == SkipWhile(objStr, d1, WhiteSpace)
      d2 == SkipWhile(objStr, w1, Digits)
      w2 == SkipWhile(objStr, d2, WhiteSpace)
  IN d1 > 0 /\ w1 > d1 /\ d2 > w1 /\ w2 > d2 /\ MatchAt(objStr, w2, str_obj)

\* the numbers of a [ ... ] group: m.trim().split(/\s+/).map(parseInt)
GroupInts(group) ==
  LET parts == SplitWs(Trim(group))
  IN [i \in 1..Len(parts) |-> parseInt(parts[i])]

\* /\/W\s*\[\s*([\d\s]+)\]\s*/ : the widths, <<>> when the pattern fails
WidthsOf(dictStr) ==
  LET inner(p) ==
        LET a == SkipWhile(dictStr, p + Len(key_W), WhiteSpace)
            c == SkipWhile(dictStr, a + 1, Digits \cup WhiteSpace)
        IN IF /\ a < Len(dictStr) /\ dictStr[a + 1] = 91
              /\ c > a + 1 /\ c < Len(dictStr) /\ dictStr[c + 1] = 93
           THEN Slice(dictStr, a + 1, c) ELSE <<>>
      hits == {p \in 0..(Len(dictStr) - Len(key_W)) :
                 MatchAt(dictStr, p, key_W) /\ inner(p) # <<>>}
  IN IF hits = {} THEN <<>> ELSE GroupInts(inner(Min(hits)))

\* the (firstObjNum, count) pairs of /Index
RECURSIVE PairUp(_)
PairUp(nums) ==
  IF Len(nums) < 2 THEN <<>>
  ELSE <<<<nums[1], nums[2]>>>> \o PairUp(SubSeq(nums, 3, Len(nums)))

\* /\/Filter\s*\/FlateDecode/.test(dictStr)
HasFlateFilter(dictStr) ==
  \E p \in 0..(Len(dictStr) - Len(key_Filter)) :
    /\ MatchAt(dictStr, p, key_Filter)
    /\ MatchAt(dictStr, SkipWhile(dictStr, p + Len(key_Filter), WhiteSpace), str_FlateDecode)

\* smallest integer >= a fixed-point value (the number of k with k < value)
CeilUnits(v) == IF v <= 0 THEN 0 ELSE (v + PtScale - 1) \div PtScale

\* parseXrefStream up to its await: <<>> when it returns null, else the
\* locals it keeps across the suspension
xrefStreamPrepare(bytes, startOffset) ==
  LET objStr == readObjectAt(bytes, startOffset)
      dictEnd == IndexOf(objStr, str_dictEnd)
      dictStr == Slice(objStr, 0, dictEnd + 2)
      size == parseDictGetNumber(dictStr, key_Size)
      wArr == WidthsOf(dictStr)
      indexGroup == BracketAfter(dictStr, key_Index)
      indexPairs == IF indexGroup = <<>> THEN <<>> ELSE PairUp(GroupInts(indexGroup))
      streamMarker == IndexOf(objStr, str_stream)
      rest == Len(bytes) - startOffset
      d0 == streamMarker + 6
      d1 == IF d0 < rest /\ bytes[startOffset + d0 + 1] = 13 THEN d0 + 1 ELSE d0
      dataStart == IF d1 < rest /\ bytes[startOffset + d1 + 1] = 10 THEN d1 + 1 ELSE d1
      lengthVal == parseDictGetNumber(dictStr, key_Length)
      streamLen == IF lengthVal # NULL /\ lengthVal # NaN /\ lengthVal >= 0
                   THEN lengthVal \div PtScale ELSE 0
  IN IF ~ObjHeaderMatches(objStr) THEN <<>>
     ELSE IF dictEnd < 0 THEN <<>>
     ELSE IF size = NULL \/ (size # NaN /\ size < 0) THEN <<>>
     ELSE IF Len(wArr) < 3 THEN <<>>
     ELSE IF streamMarker < 0 THEN <<>>
     ELSE <<[dictStr |-> dictStr,
             w |-> SubSeq(wArr, 1, 3),
             indexPairs |-> IF indexPairs = <<>>
                            THEN <<<<0, IF size = NaN THEN 0 ELSE CeilUnits(size)>>>>
                            ELSE indexPairs,
             streamBytes |-> bytesToStr(bytes, startOffset + dataStart, streamLen),
             filter |-> HasFlateFilter(dictStr)]>>

\* the entries one index range adds, its first record being record `base`
xrefStreamRange(data, w, firstObj, count, base) ==
  LET entryLen == w[1] + w[2] + w[3]
      used == {k \in 0..(count - 1) :
                 /\ (base + k) * entryLen + entryLen <= Len(data)
                 /\ readIntBE(data, (base + k) * entryLen, w[1]) = <<0, 1>>}
      key(k) == IF firstObj = NaN THEN NaN ELSE firstObj + k
  IN [o \in {key(k) : k \in used} |->
        NumberOf(readIntBE(data, (base + Max({k \in used : key(k) = o})) * entryLen + w[1],
                           w[2]))]

\* pos set to 0 again at the start of every range
RECURSIVE xrefStreamLoop_restart(_, _, _, _, _)
xrefStreamLoop_restart(data, w, pairs, base, map) ==
  IF pairs = <<>> THEN map
  ELSE LET firstObj == Head(pairs)[1]
           count == Head(pairs)[2]
       IN IF count = NaN \/ count <= 0
          THEN xrefStreamLoop_restart(data, w, Tail(pairs), base, map)
          ELSE xrefStreamLoop_restart(data, w, Tail(pairs), 0,
                                      xrefStreamRange(data, w, firstObj, count, 0) @@ map)

RECURSIVE xrefStreamLoop(_, _, _, _, _)
xrefStreamLoop(data, w, pairs, base, map) ==
  IF pairs = <<>> THEN map
  ELSE LET firstObj == Head(pairs)[1]
           count == Head(pairs)[2]
       IN IF count = NaN \/ count <= 0
          THEN xrefStreamLoop(data, w, Tail(pairs), base, map)
          ELSE xrefStreamLoop(data, w, Tail(pairs), base + count,
                              xrefStreamRange(data, w, firstObj, count, base) @@ map)

\* parseXrefStream after its await: the map built from the decoded data
xrefStreamEntries(ctx, data) == xrefStreamLoop(data, ctx.w, ctx.indexPairs, 0, EmptyMap)

\* ---------------------------------------------------------------------
\* Input buffers.  A document is described by a record and written out as
\* bytes by Render; the parser only ever sees the bytes.
\* ---------------------------------------------------------------------

\* "%PDF-1.4\n"
txt_header == <<37, 80, 68, 70, 45, 49, 46, 52, 10>>
\* "%PDX-1.4\n"
txt_badHeader == <<37, 80, 68, 88, 45, 49, 46, 52, 10>>
\* " 0 obj\n"
txt_obj == <<32, 48, 32, 111, 98, 106, 10>>
\* "\nendobj\n"
txt_endobj == <<10, 101, 110, 100, 111, 98, 106, 10>>
\* "<< /Type /Catalog /Pages "
txt_catalog == <<60, 60, 32, 47, 84, 121, 112, 101, 32, 47, 67, 97, 116, 97, 108, 111, 103, 32, 47, 80, 97, 103, 101, 115, 32>>
\* " 0 R"
txt_ref == <<32, 48, 32, 82>>
\* " >>"
txt_close == <<32, 62, 62>>
\* "<< /Type /Pages"
txt_pagesOpen == <<60, 60, 32, 47, 84, 121, 112, 101, 32, 47, 80, 97, 103, 101, 115>>
\* " /Kids ["
txt_kidsOpen == <<32, 47, 75, 105, 100, 115, 32, 91>>
\* " /Count "
txt_count == <<32, 47, 67, 111, 117, 110, 116, 32>>
\* "<< /Type /Page /Parent "
txt_pageOpen == <<60, 60, 32, 47, 84, 121, 112, 101, 32, 47, 80, 97, 103, 101, 32, 47, 80, 97, 114, 101, 110, 116, 32>>
\* " /MediaBox ["
txt_mediaBox == <<32, 47, 77, 101, 100, 105, 97, 66, 111, 120, 32, 91>>
\* "<< /Producer (CogNote) >>"
txt_extra == <<60, 60, 32, 47, 80, 114, 111, 100, 117, 99, 101, 114, 32, 40, 67, 111, 103, 78, 111, 116, 101, 41, 32, 62, 62>>
\* "xref\n0 "
txt_xref == <<120, 114, 101, 102, 10, 48, 32>>
\* "0000000000 65535 f \n"
txt_freeEntry == <<48, 48, 48, 48, 48, 48, 48, 48, 48, 48, 32, 54, 53, 53, 51, 53, 32, 102, 32, 10>>
\* " 00000 n \n"
txt_inUse == <<32, 48, 48, 48, 48, 48, 32, 110, 32, 10>>
\* "trailer\n<< /Size "
txt_trailer == <<116, 114, 97, 105, 108, 101, 114, 10, 60, 60, 32, 47, 83, 105, 122, 101, 32>>
\* " /Root "
txt_root == <<32, 47, 82, 111, 111, 116, 32>>
\* "startxref\n"
txt_startxref == <<115, 116, 97, 114, 116, 120, 114, 101, 102, 10>>
\* "\n%%EOF\n"
txt_eof == <<10, 37, 37, 69, 79, 70, 10>>
\* "<< /Type /XRef /Size "
txt_xrefStreamOpen == <<60, 60, 32, 47, 84, 121, 112, 101, 32, 47, 88, 82, 101, 102, 32, 47, 83, 105, 122, 101, 32>>
\* " /DecodeParms << /Columns 4 /Predictor 1 >>"
txt_parms == <<32, 47, 68, 101, 99, 111, 100, 101, 80, 97, 114, 109, 115, 32, 60, 60, 32, 47, 67, 111, 108, 117, 109, 110, 115, 32, 52, 32, 47, 80, 114, 101, 100, 105, 99, 116, 111, 114, 32, 49, 32, 62, 62>>
\* " /W ["
txt_Wopen == <<32, 47, 87, 32, 91>>
\* " /Index ["
txt_index == <<32, 47, 73, 110, 100, 101, 120, 32, 91>>
\* " /Filter /FlateDecode"
txt_filter == <<32, 47, 70, 105, 108, 116, 101, 114, 32, 47, 70, 108, 97, 116, 101, 68, 101, 99, 111, 100, 101>>
\* " /Length "
txt_length == <<32, 47, 76, 101, 110, 103, 116, 104, 32>>
\* "\nstream\n"
txt_stream == <<10, 115, 116, 114, 101, 97, 109, 10>>
\* "\nendstream"
txt_endstream == <<10, 101, 110, 100, 115, 116, 114, 101, 97, 109>>
\* "<< /Type /Outlines /Count "
txt_outlines == <<60, 60, 32, 47, 84, 121, 112, 101, 32, 47, 79, 117, 116, 108, 105, 110, 101, 115, 32, 47, 67, 111, 117, 110, 116, 32>>
\* "<< /Type /Catalog"
txt_catalogBare == <<60, 60, 32, 47, 84, 121, 112, 101, 32, 47, 67, 97, 116, 97, 108, 111, 103>>
\* a complete one-page file of 97 bytes:
\* "%PDF-1.4\n/Pages 2 0 R/MediaBox[0 0 9 9]\nxref\n0 3\n0 0 f\n9 0 n\n9 0 n\n/Root 1 0 R\nstartxref\n40\n%%EOF"
txt_tiny == <<37, 80, 68, 70, 45, 49, 46, 52, 10, 47, 80, 97, 103, 101, 115, 32, 50, 32, 48, 32, 82, 47, 77, 101, 100, 105, 97, 66, 111, 120, 91, 48, 32, 48, 32, 57, 32, 57, 93, 10, 120, 114, 101, 102, 10, 48, 32, 51, 10, 48, 32, 48, 32, 102, 10, 57, 32, 48, 32, 110, 10, 57, 32, 48, 32, 110, 10, 47, 82, 111, 111, 116, 32, 49, 32, 48, 32, 82, 10, 115, 116, 97, 114, 116, 120, 114, 101, 102, 10, 52, 48, 10, 37, 37, 69, 79, 70>>

RECURSIVE DecStr(_)
DecStr(n) == IF n < 10 THEN <<48 + n>> ELSE DecStr(n \div 10) \o <<48 + (n % 10)>>

Fill(byte, n) == [i \in 1..n |-> byte]

Pad10(n) == Fill(48, 10 - Len(DecStr(n))) \o DecStr(n)

RECURSIVE Concat(_)
Concat(ss) ==
  IF ss = <<>> THEN <<>>
  ELSE IF Len(ss) = 1 THEN ss[1]
  ELSE LET h == Len(ss) \div 2
       IN Concat(SubSeq(ss, 1, h)) \o Concat(SubSeq(ss, h + 1, Len(ss)))

RECURSIVE JoinSp(_)
JoinSp(ss) ==
  IF ss = <<>> THEN <<>>
  ELSE IF Len(ss) = 1 THEN ss[1]
  ELSE ss[1] \o <<32>> \o JoinSp(Tail(ss))

\* page-tree nodes: kids and box are empty when the entry is absent,
\* count is -1 when absent; a box is four number tokens, and pageBox is
\* <<the PageBox the leaf's MediaBox stands for>>, or <<>> when the leaf
\* has no MediaBox of positive width and height
PagesNode(parent, kids, count) ==
  [type |-> "Pages", parent |-> parent, kids |-> kids, count |-> count,
   box |-> <<>>, pageBox |-> <<>>]
PageLeaf(parent, box, pageBox) ==
  [type |-> "Page", parent |-> parent, kids |-> <<>>, count |-> -1,
   box |-> box, pageBox |-> pageBox]

BoxTokens(x0, y0, x1, y1) == <<DecStr(x0), DecStr(y0), DecStr(x1), DecStr(y1)>>
LetterBox == BoxTokens(0, 0, 612, 792)
A4Box == BoxTokens(0, 0, 595, 842)
CardBox == BoxTokens(10, 20, 310, 420)

\* the PageBox each of these MediaBoxes stands for
LetterPageBox == [widthPt |-> Pt(612), heightPt |-> Pt(792), widthPx |-> 816, heightPx |-> 1056]
A4PageBox == [widthPt |-> Pt(595), heightPt |-> Pt(842), widthPx |-> 793, heightPx |-> 1123]
CardPageBox == [widthPt |-> Pt(300), heightPt |-> Pt(400), widthPx |-> 400, heightPx |-> 533]

LetterLeaf(parent) == PageLeaf(parent, LetterBox, <<LetterPageBox>>)
A4Leaf(parent) == PageLeaf(parent, A4Box, <<A4PageBox>>)
CardLeaf(parent) == PageLeaf(parent, CardBox, <<CardPageBox>>)
\* /MediaBox [- 0 612 792]
DashLeaf(parent) == PageLeaf(parent, <<<<45>>, DecStr(0), DecStr(612), DecStr(792)>>, <<>>)

\* /MediaBox [0 0 0 792] and /MediaBox [0 0 612 0]
ZeroWidthLeaf(parent) == PageLeaf(parent, <<DecStr(0), DecStr(0), DecStr(0), DecStr(792)>>, <<>>)
ZeroHeightLeaf(parent) == PageLeaf(parent, <<DecStr(0), DecStr(0), DecStr(612), DecStr(0)>>, <<>>)

NodeBody(n) ==
  IF n.type = "Pages"
  THEN txt_pagesOpen
       \o (IF n.kids = <<>> THEN <<>>
           ELSE txt_kidsOpen \o JoinSp([i \in 1..Len(n.kids) |-> DecStr(n.kids[i]) \o txt_ref])
                \o <<93>>)
       \o (IF n.count < 0 THEN <<>> ELSE txt_count \o DecStr(n.count))
       \o txt_close
  ELSE txt_pageOpen \o DecStr(n.parent) \o txt_ref
       \o (IF n.box = <<>> THEN <<>> ELSE txt_mediaBox \o JoinSp(n.box) \o <<93>>)
       \o txt_close

\* object numbers of a document: 1 is the catalog (without a /Pages entry
\* when d.pagesRef is negative), the tree's nodes follow,
\* then d.extra unrelated objects, then an outline dictionary when
\* d.outlines >= 0 (its /Count); the outline dictionary is written first,
\* the catalog and the tree in the order d.order, the unrelated objects last
TreeNums(d) == DOMAIN d.tree
LastTreeNum(d) == Max(TreeNums(d) \cup {1})
OutlinesNum(d) == LastTreeNum(d) + d.extra + 1
DocSize(d) == LastTreeNum(d) + d.extra + 1 + (IF d.outlines >= 0 THEN 1 ELSE 0)
FileOrder(d) ==
  (IF d.outlines >= 0 THEN <<OutlinesNum(d)>> ELSE <<>>)
  \o d.order \o [i \in 1..d.extra |-> LastTreeNum(d) + i]

ObjBody(d, n) ==
  IF n = 1
  THEN (IF d.pagesRef < 0 THEN txt_catalogBare
        ELSE txt_catalog \o DecStr(d.pagesRef) \o txt_ref) \o txt_close
  ELSE IF n \in TreeNums(d) THEN NodeBody(d.tree[n])
  ELSE IF d.outlines >= 0 /\ n = OutlinesNum(d)
  THEN txt_outlines \o DecStr(d.outlines) \o txt_close
  ELSE txt_extra

ObjText(d, n) == DecStr(n) \o txt_obj \o ObjBody(d, n) \o txt_endobj

RECURSIVE Layout(_, _, _)
Layout(d, nums, pos) ==
  IF nums = <<>> THEN EmptyMap
  ELSE IF Len(nums) = 1 THEN nums[1] :> pos
  ELSE LET h == Len(nums) \div 2
           left == SubSeq(nums, 1, h)
       IN Layout(d, left, pos)
          @@ Layout(d, SubSeq(nums, h + 1, Len(nums)),
                    pos + Len(Concat([i \in 1..h |-> ObjText(d, left[i])])))

\* d.junk bytes, the signature line, then a run of d.lead spaces
DocHead(d) ==
  Fill(35, d.junk) \o (IF d.header = "ok" THEN txt_header ELSE txt_badHeader)
  \o [i \in 1..d.lead |-> 32]

DocBody(d) == Concat([i \in 1..Len(FileOrder(d)) |-> ObjText(d, FileOrder(d)[i])])

DocOffsets(d) == Layout(d, FileOrder(d), Len(DocHead(d)))

XrefPos(d) == Len(DocHead(d)) + Len(DocBody(d))

\* the /Root entry of the trailer or of the xref stream dictionary, absent
\* when d.root is negative
RootEntry(root) == IF root < 0 THEN <<>> ELSE txt_root \o DecStr(root) \o txt_ref

\* the 20-byte entry of object n in a classic table
XrefEntryLine(d, offs, n) ==
  IF n \in DOMAIN offs /\ d.entries = "inUse"
  THEN Pad10(offs[n]) \o txt_inUse ELSE txt_freeEntry

\* text after the trailer dictionary that reads as a subsection: "3 1" and
\* an in-use entry holding the offset of the last node of the page tree
StrayLines(d, offs) ==
  IF d.stray = "none" THEN <<>>
  ELSE DecStr(3) \o <<32>> \o DecStr(1) \o <<10>> \o Pad10(offs[LastTreeNum(d)]) \o txt_inUse

\* classic cross-reference section with the offsets offs, and the trailer.
\* The entries 0..size-1 form one subsection, or two ("0 1" and
\* "1 size-1") when d.sections is 2; the header of the last subsection
\* announces d.announce entries more than follow.  Every entry is free
\* when d.entries is "free".  d.xrefLead line feeds precede the xref keyword,
\* and startxref points to the first of them.
XrefTableOf(d, size, offs, root) ==
  Fill(10, d.xrefLead) \o txt_xref
  \o (IF d.sections = 2
      THEN DecStr(1) \o <<10>> \o XrefEntryLine(d, offs, 0)
           \o DecStr(1) \o <<32>> \o DecStr(size - 1 + d.announce) \o <<10>>
           \o Concat([k \in 1..(size - 1) |-> XrefEntryLine(d, offs, k)])
      ELSE DecStr(size + d.announce) \o <<10>>
           \o Concat([k \in 1..size |-> XrefEntryLine(d, offs, k - 1)]))
  \o txt_trailer \o DecStr(size) \o RootEntry(root)
  \o txt_close \o <<10>>
  \o StrayLines(d, offs)

XrefTableText(d) == XrefTableOf(d, DocSize(d), DocOffsets(d), d.root)

\* zlib stream holding data in one stored block, with its Adler-32 trailer
Deflate(data) ==
  <<120, 1, 1>> \o LE16(Len(data)) \o LE16(65535 - Len(data)) \o data
  \o BE16(AdlerB(data)) \o BE16(AdlerA(data))

\* the k low bytes of v, most significant first
RECURSIVE BEn(_, _)
BEn(v, k) == IF k = 0 THEN <<>> ELSE BEn(v \div 256, k - 1) \o <<v % 256>>

\* the ranges of /Index: none written, objects 0-2 then the rest, or the
\* rest first
IndexRanges(d, size) ==
  IF d.index = "split" THEN <<<<0, 3>>, <<3, size - 2>>>>
  ELSE IF d.index = "swapped" THEN <<<<3, size - 2>>, <<0, 3>>>>
  ELSE <<<<0, size + 1>>>>

IndexEntry(d, size) ==
  IF d.index = "none" THEN <<>>
  ELSE txt_index
       \o JoinSp([i \in 1..4 |-> DecStr(IndexRanges(d, size)[(i + 1) \div 2][2 - (i % 2)])])
       \o <<93>>

\* the object numbers in the order of their records
RecordOrder(d, size) ==
  Concat([r \in 1..Len(IndexRanges(d, size)) |->
    [k \in 1..IndexRanges(d, size)[r][2] |-> IndexRanges(d, size)[r][1] + k - 1]])

\* the record of object n: type 1 with its offset, type 2 (object stream
\* `size`, index 0) for the objects of d.compressed, else type 0.  With
\* d.high "wide" the first byte of every offset field is 1; with "top" the
\* offset field of the first unrelated object is FF ... FF FE.
XrefRecord(d, size, offs, pos, n) ==
  LET w == d.w \o <<1, 1, 1>>
      field(v) == IF d.high = "wide" THEN <<1>> \o BEn(v, w[2] - 1) ELSE BEn(v, w[2])
      rec(type, v) == BEn(type, w[1]) \o field(v) \o Fill(0, w[3])
  IN IF d.entries = "free" THEN rec(0, 0)
     ELSE IF n \in d.compressed THEN rec(2, size)
     ELSE IF d.high = "top" /\ n = LastTreeNum(d) + 1
     THEN BEn(1, w[1]) \o Fill(255, w[2] - 1) \o <<254>> \o Fill(0, w[3])
     ELSE IF n \in DOMAIN offs THEN rec(1, offs[n])
     ELSE IF n = size THEN rec(1, pos)
     ELSE rec(0, 0)

\* xref stream: object number size at offset pos, /W d.w, one record per
\* object in the order of /Index (a missing width written as 1 byte)
XrefRecordsOf(d, size, offs, pos) ==
  Concat([i \in 1..(size + 1) |-> XrefRecord(d, size, offs, pos, RecordOrder(d, size)[i])])

XrefRecords(d) == XrefRecordsOf(d, DocSize(d), DocOffsets(d), XrefPos(d))

XrefStreamDataOf(d, records) ==
  IF d.filter = "flate" THEN Deflate(records)
  ELSE IF d.filter = "corrupt"
  THEN LET z == Deflate(records)
       IN SubSeq(z, 1, Len(z) - 1) \o <<(z[Len(z)] + 1) % 256>>
  ELSE records

XrefStreamData(d) == XrefStreamDataOf(d, XrefRecords(d))

\* the /Length written: the length of the data, 30 more (the data and
\* part of what follows it in the file), or 5000 more (past the end of
\* the file)
DeclaredLength(d, records) ==
  Len(XrefStreamDataOf(d, records))
  + (IF d.length = "long" THEN 30 ELSE IF d.length = "past" THEN 5000 ELSE 0)

\* the xref stream object from its number to the >> that closes its
\* dictionary; d.dict "noW" leaves /W out
XrefStreamDictOf(d, size, records, root) ==
  DecStr(size) \o txt_obj \o txt_xrefStreamOpen \o DecStr(size + 1)
  \o (IF d.dict = "parms" THEN txt_parms ELSE <<>>)
  \o (IF d.dict = "noW" THEN <<>>
      ELSE txt_Wopen \o JoinSp([i \in 1..Len(d.w) |-> DecStr(d.w[i])]) \o <<93>>)
  \o IndexEntry(d, size) \o RootEntry(root)
  \o (IF d.filter = "none" THEN <<>> ELSE txt_filter)
  \o txt_length \o DecStr(DeclaredLength(d, records)) \o txt_close

\* d.dict "noStream": the object ends after its dictionary
XrefStreamOf(d, size, records, root) ==
  XrefStreamDictOf(d, size, records, root)
  \o (IF d.dict = "noStream" THEN <<>>
      ELSE txt_stream \o XrefStreamDataOf(d, records) \o txt_endstream)
  \o txt_endobj

XrefStreamText(d) == XrefStreamOf(d, DocSize(d), XrefRecords(d), d.root)

\* a comment line of n bytes, "\n%xxx...", or nothing
GapText(n) == IF n < 2 THEN <<>> ELSE <<10, 37>> \o Fill(120, n - 2)

\* startxref, the offset, a comment of d.gap bytes, %%EOF; with d.tail
\* "abut" a second startxref keyword stands directly before %%EOF
DocTail(d) ==
  (IF d.tail = "noStartxref" THEN <<>> ELSE txt_startxref)
  \o (IF d.tail = "noInt" THEN <<>> ELSE DecStr(XrefPos(d)))
  \o GapText(d.gap)
  \o (IF d.tail = "noEof" THEN <<10>>
      ELSE IF d.tail = "abut" THEN <<10>> \o STARTXREF_MARKER \o Tail(txt_eof)
      ELSE txt_eof)

\* the file as first written
Revision(d) ==
  DocHead(d) \o DocBody(d)
  \o (IF d.xref = "table" THEN XrefTableText(d) ELSE XrefStreamText(d))
  \o DocTail(d)

\* an incremental update appended to the file.  "page" writes object 3
\* again, as an A4 page; "catalog" frees object 1 and writes a new catalog
\* as object DocSize + 1, which the new trailer names as /Root; both end
\* with a complete xref section, startxref and %%EOF.  "eof" appends
\* nothing but one more %%EOF line.
UpdateNum(d) == IF d.update = "page" THEN 3 ELSE DocSize(d) + 1
UpdateObj(d) ==
  DecStr(UpdateNum(d)) \o txt_obj
  \o (IF d.update = "page" THEN NodeBody(A4Leaf(2))
      ELSE txt_catalog \o DecStr(d.pagesRef) \o txt_ref \o txt_close)
  \o txt_endobj
UpdatePos(d) == Len(Revision(d))
UpdateSize(d) == DocSize(d) + 2
UpdateRoot(d) == IF d.update = "catalog" THEN UpdateNum(d) ELSE d.root
UpdateOffsets(d) ==
  (UpdateNum(d) :> UpdatePos(d))
  @@ (IF d.xref = "stream" THEN DocSize(d) :> XrefPos(d) ELSE EmptyMap)
  @@ [n \in DOMAIN DocOffsets(d) \ (IF d.update = "catalog" THEN {1} ELSE {}) |->
        DocOffsets(d)[n]]
UpdateXrefPos(d) == UpdatePos(d) + Len(UpdateObj(d))
Update(d) ==
  IF d.update = "none" THEN <<>>
  ELSE IF d.update = "eof" THEN Tail(txt_eof)
  ELSE UpdateObj(d)
       \o (IF d.xref = "table"
           THEN XrefTableOf(d, UpdateSize(d), UpdateOffsets(d), UpdateRoot(d))
           ELSE XrefStreamOf(d, UpdateSize(d),
                  XrefRecordsOf(d, UpdateSize(d), UpdateOffsets(d), UpdateXrefPos(d)),
                  UpdateRoot(d)))
       \o txt_startxref \o DecStr(UpdateXrefPos(d)) \o txt_eof

\* where the xref section named by the last startxref begins
LastXrefPos(d) == IF d.update \in {"page", "catalog"} THEN UpdateXrefPos(d) ELSE XrefPos(d)

Render(d) ==
  IF d.kind = "tiny" THEN txt_tiny \o Fill(10, d.pad)
  ELSE Revision(d) \o Update(d)

\* ---------------------------------------------------------------------
\* The bounded set of input documents
\* ---------------------------------------------------------------------

\* most unrelated objects added after the page tree
MaxExtra == 8

\* one page
TreeSingle == (2 :> PagesNode(0, <<3>>, 1)) @@ (3 :> LetterLeaf(2))
\* three pages of different sizes under one /Pages node
TreeThree ==
  (2 :> PagesNode(0, <<3, 4, 5>>, 3)) @@ (3 :> LetterLeaf(2)) @@ (4 :> A4Leaf(2))
  @@ (5 :> CardLeaf(2))
\* an intermediate /Pages node first, then a page
TreeNested ==
  (2 :> PagesNode(0, <<3, 4>>, 3)) @@ (3 :> PagesNode(2, <<5, 6>>, 2)) @@ (4 :> A4Leaf(2))
  @@ (5 :> LetterLeaf(3)) @@ (6 :> CardLeaf(3))
\* a page first, then an intermediate /Pages node
TreeMixed ==
  (2 :> PagesNode(0, <<3, 4>>, 3)) @@ (3 :> LetterLeaf(2)) @@ (4 :> PagesNode(2, <<5, 6>>, 2))
  @@ (5 :> A4Leaf(4)) @@ (6 :> CardLeaf(4))
\* /Count 5, one page present, the next kid (object 9) not in the file
TreeMissingKid == (2 :> PagesNode(0, <<3, 9>>, 5)) @@ (3 :> A4Leaf(2))
\* the same with /Count n, or with no /Count when n is -1
CountTree(n) == (2 :> PagesNode(0, <<3, 9>>, n)) @@ (3 :> A4Leaf(2))
\* a /Pages node that lists itself as its kid
TreeSelf == (2 :> PagesNode(0, <<2>>, 1))
\* a /Pages node whose kid is a /Pages node that lists its parent as kid
TreeLoop == (2 :> PagesNode(0, <<3>>, 1)) @@ (3 :> PagesNode(2, <<2>>, 1))
\* /Count 5 and one page without a MediaBox
TreeNoBox == (2 :> PagesNode(0, <<3>>, 5)) @@ (3 :> PageLeaf(2, <<>>, <<>>))
\* a page whose MediaBox has a '-' token, then a good page
TreeDash ==
  (2 :> PagesNode(0, <<3, 4>>, 2)) @@ (3 :> DashLeaf(2)) @@ (4 :> A4Leaf(2))

\* pages without width or height among good pages, and alone under /Count 5
TreeZeroAmong ==
  (2 :> PagesNode(0, <<3, 4, 5, 6>>, 4)) @@ (3 :> ZeroWidthLeaf(2)) @@ (4 :> A4Leaf(2))
  @@ (5 :> ZeroHeightLeaf(2)) @@ (6 :> CardLeaf(2))
TreeZeroOnly == (2 :> PagesNode(0, <<3>>, 5)) @@ (3 :> ZeroWidthLeaf(2))
ZeroTrees == {TreeZeroAmong, TreeZeroOnly}

NumOrder(tree) == [i \in 1..(Cardinality(DOMAIN tree) + 1) |-> i]

BaseDoc ==
  [kind |-> "pdf", junk |-> 0, header |-> "ok", tree |-> TreeSingle,
   order |-> <<1, 2, 3>>, extra |-> 0, outlines |-> -1, pagesRef |-> 2, xref |-> "table",
   dict |-> "plain", filter |-> "flate", tail |-> "ok", pad |-> 0, lead |-> 0,
   root |-> 1, entries |-> "inUse", gap |-> 0, update |-> "none",
   sections |-> 1, announce |-> 0, stray |-> "none", xrefLead |-> 0,
   w |-> <<1, 2, 1>>, index |-> "none", compressed |-> {}, length |-> "ok",
   high |-> "none"]

WithTree(d, tree) == [d EXCEPT !.tree = tree, !.order = NumOrder(tree)]

TinyDoc(pad) == [BaseDoc EXCEPT !.kind = "tiny", !.pad = pad]

\* complete files around the 100-byte limit
TinyDocs == {TinyDoc(n) : n \in {0, 2, 3, 4}}

\* single-page files with a growing number of objects, both xref kinds
SizedDocs ==
  {[BaseDoc EXCEPT !.extra = n, !.xref = x] : n \in 0..MaxExtra, x \in {"table", "stream"}}

\* junk before the signature, or no signature
HeaderDocs ==
  {[WithTree(BaseDoc, TreeMissingKid) EXCEPT !.junk = j] : j \in {4, 12, 13, 20}}
  \cup {[BaseDoc EXCEPT !.junk = 4]}
  \cup {[WithTree(BaseDoc, t) EXCEPT !.header = "bad"] : t \in {TreeSingle, TreeMissingKid}}

\* no %%EOF, no startxref keyword, no number after startxref
TailDocs ==
  {[WithTree(BaseDoc, TreeMissingKid) EXCEPT !.tail = t] :
     t \in {"noEof", "noStartxref", "noInt"}}

\* page trees, both xref kinds
TreeDocs ==
  {[WithTree(BaseDoc, t) EXCEPT !.xref = x] :
     t \in {TreeThree, TreeNested, TreeMixed, TreeMissingKid, TreeDash},
     x \in {"table", "stream"}}

\* the catalog's /Pages names an object that is not in the file; an outline
\* dictionary with its own /Count precedes the page tree
UnreachableDocs ==
  {[WithTree(BaseDoc, TreeMissingKid) EXCEPT !.pagesRef = r, !.outlines = o] :
     r \in {2, 9}, o \in {-1, 0, 7}}
  \cup {[WithTree(BaseDoc, TreeMissingKid) EXCEPT !.pagesRef = 19, !.extra = 7]}

\* xref streams: a nested dictionary before /W, no filter, damaged data
StreamDocs ==
  {[BaseDoc EXCEPT !.xref = "stream", !.dict = "parms"],
   [BaseDoc EXCEPT !.xref = "stream", !.filter = "none"],
   [WithTree(BaseDoc, TreeMissingKid) EXCEPT !.xref = "stream", !.filter = "corrupt"]}

\* xref streams with /Index ranges and records of type 2: object 4, the
\* second of three pages, or an unrelated object
IndexDocs ==
  {[WithTree(BaseDoc, TreeThree) EXCEPT !.xref = "stream", !.filter = f, !.index = i,
                                        !.compressed = z, !.extra = 1] :
     f \in {"flate", "none"}, i \in {"none", "split", "swapped"}, z \in {{}, {4}, {6}}}

\* xref streams that cannot be read: no /W, two widths, no stream keyword,
\* a /Length beyond the data, damaged data
DefectDocs ==
  {[WithTree(BaseDoc, t) EXCEPT !.xref = "stream", !.dict = x] :
     t \in {TreeSingle, TreeThree}, x \in {"noW", "noStream"}}
  \cup {[WithTree(BaseDoc, t) EXCEPT !.xref = "stream", !.w = <<1, 2>>] :
          t \in {TreeSingle, TreeThree}}
  \cup {[WithTree(BaseDoc, t) EXCEPT !.xref = "stream", !.length = n, !.filter = f] :
          t \in {TreeSingle, TreeThree}, n \in {"long", "past"},
          f \in {"flate", "none", "corrupt"}}

\* pages whose MediaBox has no width or no height
ZeroBoxDocs ==
  {[WithTree(BaseDoc, t) EXCEPT !.xref = x] : t \in ZeroTrees, x \in {"table", "stream"}}

\* xref streams with fields of 1 to 6 bytes: offsets with leading zero
\* bytes, wider than 4 bytes with a first byte of 1, and FF ... FE
WidthDocs ==
  {[WithTree(BaseDoc, TreeThree) EXCEPT !.xref = "stream", !.filter = f, !.w = w,
                                        !.high = h, !.extra = 1] :
     f \in {"flate", "none"}, w \in {<<1, 3, 0>>, <<2, 4, 1>>, <<1, 5, 1>>, <<1, 6, 2>>},
     h \in {"none", "top"}}
  \cup {[WithTree(BaseDoc, TreeThree) EXCEPT !.xref = "stream", !.w = w, !.high = "wide",
                                             !.extra = 1] :
          w \in {<<1, 5, 1>>, <<1, 6, 2>>}}

\* a missing kid and a /Count around the limits, or none
CountDocs ==
  {[WithTree(BaseDoc, CountTree(n)) EXCEPT !.xref = x] :
     n \in {-1, 0, 1, 50001, 999999}, x \in {"table", "stream"}}
  \cup {WithTree(BaseDoc, CountTree(50000))}

\* a missing kid and /Count 5, the objects pushed towards and beyond the
\* first 512 KiB by spaces after the signature line
FarDocs ==
  {[WithTree(BaseDoc, TreeMissingKid) EXCEPT !.lead = n] :
     n \in {512 * 1024 - 200, 512 * 1024}}

\* the catalog has no /Pages entry; the only page has no MediaBox
ResolveDocs ==
  {[WithTree(BaseDoc, TreeMissingKid) EXCEPT !.pagesRef = -1, !.xref = x] :
     x \in {"table", "stream"}}
  \cup {[WithTree(BaseDoc, TreeNoBox) EXCEPT !.xref = x] : x \in {"table", "stream"}}

\* a missing kid and /Count 5; the xref section has no in-use entry, or
\* there is no /Root entry, or /Root names an object the section does not list
RootDocs ==
  {[WithTree(BaseDoc, TreeMissingKid) EXCEPT !.entries = "free", !.xref = x, !.filter = f] :
     x \in {"table", "stream"}, f \in {"flate", "none"}}
  \cup {[WithTree(BaseDoc, TreeMissingKid) EXCEPT !.root = r, !.xref = x] :
          r \in {-1, 19}, x \in {"table", "stream"}}

\* the number of comment bytes between the offset and %%EOF that puts the first
\* byte of the startxref keyword dist bytes before %%EOF
GapFor(d, dist) == dist - (Len(txt_startxref) + Len(DecStr(XrefPos(d))) + 1)

\* a one-page file whose startxref keyword begins 2048, 2049, 2057 or 2058
\* bytes before %%EOF; one with a second keyword directly before %%EOF
GapDocs ==
  {[BaseDoc EXCEPT !.gap = GapFor(BaseDoc, n), !.xref = x] :
     n \in {STARTXREF_WINDOW, STARTXREF_WINDOW + 1,
            STARTXREF_WINDOW + Len(STARTXREF_MARKER),
            STARTXREF_WINDOW + Len(STARTXREF_MARKER) + 1},
     x \in {"table", "stream"}}
  \cup {[BaseDoc EXCEPT !.tail = "abut"]}

\* a one-page Letter file with an incremental update, both xref kinds; the
\* first revision's startxref lies within 2048 bytes of the last %%EOF
UpdateDocs ==
  {[BaseDoc EXCEPT !.update = u, !.xref = x, !.extra = n] :
     u \in {"page", "catalog", "eof"}, x \in {"table", "stream"}, n \in {0, 2}}

\* classic tables written as two subsections, one, three and nested pages
\* and a file with further objects and an incremental update
SectionDocs ==
  {[WithTree(BaseDoc, t) EXCEPT !.sections = 2] : t \in {TreeSingle, TreeThree, TreeNested}}
  \cup {[BaseDoc EXCEPT !.sections = 2, !.extra = 3, !.update = u] : u \in {"none", "catalog"}}

\* three pages; after the trailer dictionary stand the lines "3 1" and an
\* entry with the offset of the third page
StrayDocs == {[WithTree(BaseDoc, TreeThree) EXCEPT !.stray = "entries"]}

\* unrelated objects enough for a classic table of 207 entries, 11 bytes
\* longer than the 4096-byte window it is read through with its header
\* lines
ManyExtra == 203

\* subsections that announce more entries than follow; tables that run
\* past the window, the last entry inside it cut after 5, 19, 18 and 17 of
\* its 20 bytes (after 18, offset, generation and tag are inside)
TruncatedDocs ==
  {[WithTree(BaseDoc, t) EXCEPT !.announce = n, !.sections = s] :
     t \in {TreeSingle, TreeThree}, n \in {1, 100}, s \in {1, 2}}
  \cup {[BaseDoc EXCEPT !.extra = ManyExtra, !.xrefLead = n] : n \in {0, 6, 7, 8}}

\* a cycle in the /Kids graph; the one-page file with the page written
\* before its /Pages node
CycleDocs ==
  {[WithTree(BaseDoc, t) EXCEPT !.xref = x] :
     t \in {TreeSelf, TreeLoop}, x \in {"table", "stream"}}
  \cup {[BaseDoc EXCEPT !.order = <<1, 3, 2>>, !.xref = x] : x \in {"table", "stream"}}

\* the page trees, with and without cycles, behind either kind of
\* cross-reference
LiveDocs == CycleDocs \cup TreeDocs \cup StreamDocs \cup ZeroBoxDocs \cup ResolveDocs

Docs ==
  ResolveDocs \cup CycleDocs \cup TinyDocs \cup SizedDocs \cup HeaderDocs \cup TailDocs \cup TreeDocs
  \cup UnreachableDocs \cup StreamDocs \cup CountDocs \cup RootDocs
  \cup UpdateDocs \cup GapDocs \cup SectionDocs \cup StrayDocs \cup TruncatedDocs
  \cup IndexDocs \cup DefectDocs \cup ZeroBoxDocs \cup WidthDocs

\* documents for calls in flight together: classic and stream files, one
\* and three pages, a missing kid, damaged Flate data, a short file
ConcDocs ==
  {BaseDoc, TinyDoc(0),
   [BaseDoc EXCEPT !.xref = "stream"],
   [BaseDoc EXCEPT !.xref = "stream", !.filter = "corrupt"],
   [WithTree(BaseDoc, TreeThree) EXCEPT !.xref = "stream"],
   [WithTree(BaseDoc, TreeNested) EXCEPT !.xref = "stream"],
   [WithTree(BaseDoc, TreeMissingKid) EXCEPT !.xref = "stream"]}

\* the same objects written twice: with a classic xref table, and with a
\* cross-reference stream of the given dictionary and filter
PairOf(d, dict, filter) ==
  (1 :> [d EXCEPT !.xref = "table"])
  @@ (2 :> [d EXCEPT !.xref = "stream", !.dict = dict, !.filter = filter])

ClassicDocs == {d \in Docs : d.kind = "pdf" /\ d.xref = "table" /\ d.extra <= MaxExtra}

DocPairs ==
  {PairOf(d, "plain", "flate") : d \in ClassicDocs}
  \cup {PairOf(BaseDoc, "parms", "flate"), PairOf(BaseDoc, "plain", "corrupt")}

\* ---------------------------------------------------------------------
\* parsePdfStructure as a state machine.  Every variable is a function of
\* the call: each call of parsePdfStructure has its own locals.
\* ---------------------------------------------------------------------

\* deepest nesting of collectPages activations the engine's stack holds
MaxCallDepth == 6

VARIABLES
  doc,           \* the description the buffer was written from (not read by the parser)
  bytes,         \* the buffer
  thread,        \* the call running on the single JavaScript thread, 0 when none
  pc,            \* where the call is in parsePdfStructure
  eofPos,
  xrefOffset,
  xrefMap,
  rootObjNum,
  pagesObjNum,
  streamCtx,     \* locals of parseXrefStream kept across its await; <<>> for its null
  pageBoxes,
  stack,         \* activations of collectPages, innermost last: [objNum, kids, next]
  ret,           \* value the last finished collectPages activation returned
  fallbackCalls, \* how many times the call ran fallbackPageCountAndBoxes
  result         \* what the promise settled with

vars == <<doc, bytes, thread, pc, eofPos, xrefOffset, xrefMap, rootObjNum, pagesObjNum,
          streamCtx, pageBoxes, stack, ret, fallbackCalls, result>>

Pending == [kind |-> "pending", pageCount |-> 0, pageBoxes |-> <<>>]
Rejected == [kind |-> "rejected", pageCount |-> 0, pageBoxes |-> <<>>]

Calls == DOMAIN pc

\* calls ids, not yet started, on the buffers of one of the assignments docs
InitCalls(ids, docs) ==
  /\ doc \in docs
  /\ bytes = [c \in ids |-> Render(doc[c])]
  /\ thread = 0
  /\ pc = [c \in ids |-> "length"]
  /\ eofPos = [c \in ids |-> -1]
  /\ xrefOffset = [c \in ids |-> -1]
  /\ xrefMap = [c \in ids |-> EmptyMap]
  /\ rootObjNum = [c \in ids |-> NULL]
  /\ pagesObjNum = [c \in ids |-> NULL]
  /\ streamCtx = [c \in ids |-> <<>>]
  /\ pageBoxes = [c \in ids |-> <<>>]
  /\ stack = [c \in ids |-> <<>>]
  /\ ret = [c \in ids |-> "none"]
  /\ fallbackCalls = [c \in ids |-> 0]
  /\ result = [c \in ids |-> Pending]

Init == InitCalls({1}, [{1} -> Docs])

\* the call may take its next step: it holds the thread, or the thread is
\* free and the call is not started or waits on a settled promise
CanRun(c) ==
  \/ thread = c
  \/ thread = 0 /\ pc[c] \in {"length", "inflate", "resume"}

\* return v from parsePdfStructure
Return(c, v) ==
  /\ result' = [result EXCEPT ![c] = v]
  /\ pc' = [pc EXCEPT ![c] = "done"]
  /\ thread' = 0

\* go on synchronously at label l
Goto(c, l) ==
  /\ pc' = [pc EXCEPT ![c] = l]
  /\ thread' = c
  /\ UNCHANGED result

\* suspend at label l
Await(c, l) ==
  /\ pc' = [pc EXCEPT ![c] = l]
  /\ thread' = 0
  /\ UNCHANGED result

\* lines 276-277
CheckLength(c) ==
  /\ pc[c] = "length" /\ CanRun(c)
  /\ IF Len(bytes[c]) < MIN_LENGTH THEN Return(c, NullResult) ELSE Goto(c, "header")
  /\ UNCHANGED <<doc, bytes, eofPos, xrefOffset, xrefMap, rootObjNum, pagesObjNum,
                 streamCtx, pageBoxes, stack, ret, fallbackCalls>>

\* PDF_HEADER carrying the g flag: after a successful test the next test
\* starts at the lastIndex the first one left, and fails
CheckHeader_sticky(c) ==
  /\ pc[c] = "header" /\ CanRun(c)
  /\ LET matchedBefore ==
           \E c2 \in Calls \ {c} :
             /\ pc[c2] \notin {"length", "header"}
             /\ Len(bytes[c2]) >= MIN_LENGTH
             /\ PDF_HEADER_test(bytesToStr(bytes[c2], 0, HEADER_LEN))
     IN IF matchedBefore \/ ~PDF_HEADER_test(bytesToStr(bytes[c], 0, HEADER_LEN))
        THEN Return(c, NullResult) ELSE Goto(c, "eof")
  /\ UNCHANGED <<doc, bytes, eofPos, xrefOffset, xrefMap, rootObjNum, pagesObjNum,
                 streamCtx, pageBoxes, stack, ret, fallbackCalls>>

\* lines 278-279
CheckHeader(c) ==
  /\ pc[c] = "header" /\ CanRun(c)
  /\ IF ~PDF_HEADER_test(bytesToStr(bytes[c], 0, HEADER_LEN))
     THEN Return(c, NullResult) ELSE Goto(c, "eof")
  /\ UNCHANGED <<doc, bytes, eofPos, xrefOffset, xrefMap, rootObjNum, pagesObjNum,
                 streamCtx, pageBoxes, stack, ret, fallbackCalls>>

\* lines 281-282
LocateEof(c) ==
  /\ pc[c] = "eof" /\ CanRun(c)
  /\ eofPos' = [eofPos EXCEPT ![c] = findLastEof(bytes[c])]
  /\ IF eofPos'[c] < 0 THEN Return(c, NullResult) ELSE Goto(c, "startxref")
  /\ UNCHANGED <<doc, bytes, xrefOffset, xrefMap, rootObjNum, pagesObjNum,
                 streamCtx, pageBoxes, stack, ret, fallbackCalls>>

\* a missing startxref handed to the /Count scan instead of returning null
LocateStartXref_fallback(c) ==
  /\ pc[c] = "startxref" /\ CanRun(c)
  /\ xrefOffset' = [xrefOffset EXCEPT ![c] = findStartXref(bytes[c], eofPos[c])]
  /\ IF xrefOffset'[c] < 0 THEN Goto(c, "fallback") ELSE Goto(c, "xref")
  /\ UNCHANGED <<doc, bytes, eofPos, xrefMap, rootObjNum, pagesObjNum,
                 streamCtx, pageBoxes, stack, ret, fallbackCalls>>

\* lines 284-285
LocateStartXref(c) ==
  /\ pc[c] = "startxref" /\ CanRun(c)
  /\ xrefOffset' = [xrefOffset EXCEPT ![c] = findStartXref(bytes[c], eofPos[c])]
  /\ IF xrefOffset'[c] < 0 THEN Return(c, NullResult) ELSE Goto(c, "xref")
  /\ UNCHANGED <<doc, bytes, eofPos, xrefMap, rootObjNum, pagesObjNum,
                 streamCtx, pageBoxes, stack, ret, fallbackCalls>>

\* lines 290-294
ClassicXref(c) ==
  /\ pc[c] = "xref" /\ CanRun(c)
  /\ isClassicXref(bytes[c], xrefOffset[c])
  /\ xrefMap' = [xrefMap EXCEPT ![c] = parseXrefTable(bytes[c], xrefOffset[c])]
  /\ IF DOMAIN xrefMap'[c] = {}
     THEN Return(c, NullResult) /\ UNCHANGED rootObjNum
     ELSE /\ rootObjNum' = [rootObjNum EXCEPT ![c] =
                 parseRootFromDict(findTrailerBeforeXref(bytes[c], xrefOffset[c]))]
          /\ Goto(c, "root")
  /\ UNCHANGED <<doc, bytes, eofPos, xrefOffset, pagesObjNum,
                 streamCtx, pageBoxes, stack, ret, fallbackCalls>>

\* lines 296-298 and parseXrefStream lines 191-227, up to the first await
StreamXref(c) ==
  /\ pc[c] = "xref" /\ CanRun(c)
  /\ ~isClassicXref(bytes[c], xrefOffset[c])
  /\ LET prep == xrefStreamPrepare(bytes[c], xrefOffset[c])
     IN IF prep = <<>>
        THEN /\ Await(c, "resume")
             /\ UNCHANGED <<streamCtx, xrefMap>>
        ELSE IF prep[1].filter
        THEN /\ streamCtx' = [streamCtx EXCEPT ![c] = prep]
             /\ Await(c, "inflate")
             /\ UNCHANGED xrefMap
        ELSE /\ streamCtx' = [streamCtx EXCEPT ![c] = prep]
             /\ xrefMap' = [xrefMap EXCEPT ![c] = xrefStreamEntries(prep[1], prep[1].streamBytes)]
             /\ Await(c, "resume")
  /\ UNCHANGED <<doc, bytes, eofPos, xrefOffset, rootObjNum, pagesObjNum,
                 pageBoxes, stack, ret, fallbackCalls>>

\* xrefMap declared once for the module instead of once per call
InflateResolve_shared(c) ==
  /\ pc[c] = "inflate" /\ CanRun(c)
  /\ flateDecode(streamCtx[c][1].streamBytes) # <<>>
  /\ xrefMap' = [c2 \in Calls |->
        xrefStreamEntries(streamCtx[c][1], flateDecode(streamCtx[c][1].streamBytes)[1])]
  /\ Await(c, "resume")
  /\ UNCHANGED <<doc, bytes, eofPos, xrefOffset, rootObjNum, pagesObjNum,
                 streamCtx, pageBoxes, stack, ret, fallbackCalls>>

\* flateDecode resolves: parseXrefStream lines 227 and 232-245
InflateResolve(c) ==
  /\ pc[c] = "inflate" /\ CanRun(c)
  /\ flateDecode(streamCtx[c][1].streamBytes) # <<>>
  /\ xrefMap' = [xrefMap EXCEPT ![c] =
        xrefStreamEntries(streamCtx[c][1], flateDecode(streamCtx[c][1].streamBytes)[1])]
  /\ Await(c, "resume")
  /\ UNCHANGED <<doc, bytes, eofPos, xrefOffset, rootObjNum, pagesObjNum,
                 streamCtx, pageBoxes, stack, ret, fallbackCalls>>

\* flateDecode rejects: parseXrefStream lines 228-230
InflateReject(c) ==
  /\ pc[c] = "inflate" /\ CanRun(c)
  /\ flateDecode(streamCtx[c][1].streamBytes) = <<>>
  /\ streamCtx' = [streamCtx EXCEPT ![c] = <<>>]
  /\ Await(c, "resume")
  /\ UNCHANGED <<doc, bytes, eofPos, xrefOffset, xrefMap, rootObjNum, pagesObjNum,
                 pageBoxes, stack, ret, fallbackCalls>>

\* the await of line 298 completes: lines 302-308
StreamResume(c) ==
  /\ pc[c] = "resume" /\ CanRun(c)
  /\ IF streamCtx[c] = <<>>
     THEN Return(c, NullResult) /\ UNCHANGED rootObjNum
     ELSE /\ rootObjNum' = [rootObjNum EXCEPT ![c] =
                 LET r == parseRootFromDict(streamCtx[c][1].dictStr)
                 IN IF r # NULL THEN r
                    ELSE parseRootFromDict(findTrailerBeforeXref(bytes[c], xrefOffset[c]))]
          /\ Goto(c, "root")
  /\ UNCHANGED <<doc, bytes, eofPos, xrefOffset, xrefMap, pagesObjNum,
                 streamCtx, pageBoxes, stack, ret, fallbackCalls>>

\* lines 311 and 313 returning the fallback scan's result instead of null
ResolveRoot_fallback(c) ==
  /\ pc[c] = "root" /\ CanRun(c)
  /\ IF rootObjNum[c] = NULL \/ rootObjNum[c] \notin DOMAIN xrefMap[c]
     THEN Goto(c, "fallback") /\ UNCHANGED pagesObjNum
     ELSE /\ pagesObjNum' = [pagesObjNum EXCEPT ![c] =
                 parseDictGetRef(readObjectAt(bytes[c], xrefMap[c][rootObjNum[c]]), key_Pages)]
          /\ IF pagesObjNum'[c] = NULL THEN Return(c, NullResult) ELSE Goto(c, "call")
  /\ UNCHANGED <<doc, bytes, eofPos, xrefOffset, xrefMap, rootObjNum,
                 streamCtx, pageBoxes, stack, ret, fallbackCalls>>

\* lines 311-317
ResolveRoot(c) ==
  /\ pc[c] = "root" /\ CanRun(c)
  /\ IF rootObjNum[c] = NULL \/ rootObjNum[c] \notin DOMAIN xrefMap[c]
     THEN Return(c, NullResult) /\ UNCHANGED pagesObjNum
     ELSE /\ pagesObjNum' = [pagesObjNum EXCEPT ![c] =
                 parseDictGetRef(readObjectAt(bytes[c], xrefMap[c][rootObjNum[c]]), key_Pages)]
          /\ IF pagesObjNum'[c] = NULL THEN Return(c, NullResult) ELSE Goto(c, "call")
  /\ UNCHANGED <<doc, bytes, eofPos, xrefOffset, xrefMap, rootObjNum,
                 streamCtx, pageBoxes, stack, ret, fallbackCalls>>

\* the object number the next activation of collectPages is called with
NextArg(c) ==
  IF stack[c] = <<>> THEN pagesObjNum[c]
  ELSE LET f == stack[c][Len(stack[c])] IN f.kids[f.next]

\* one activation of collectPages, lines 320-333, up to its first nested
\* call or its return
CollectEnter(c) ==
  /\ pc[c] = "call" /\ CanRun(c)
  /\ LET objNum == NextArg(c)
         objStr == readObjectAt(bytes[c], xrefMap[c][objNum])
         count == parseDictGetNumber(objStr, key_Count)
         kids == parseDictGetRefArray(objStr, key_Kids)
         box == parseMediaBox(objStr)
     IN IF objNum \notin DOMAIN xrefMap[c]
        THEN /\ ret' = [ret EXCEPT ![c] = "false"]
             /\ Goto(c, "return")
             /\ UNCHANGED <<stack, pageBoxes>>
        ELSE IF Len(kids) > 0
        THEN IF Len(stack[c]) >= MaxCallDepth
             THEN /\ result' = [result EXCEPT ![c] = Rejected]
                  /\ pc' = [pc EXCEPT ![c] = "done"]
                  /\ thread' = 0
                  /\ UNCHANGED <<stack, pageBoxes, ret>>
             ELSE /\ stack' = [stack EXCEPT ![c] =
                        Append(@, [objNum |-> objNum, kids |-> kids, next |-> 1])]
                  /\ Goto(c, "call")
                  /\ UNCHANGED <<pageBoxes, ret>>
        ELSE /\ pageBoxes' = [pageBoxes EXCEPT ![c] =
                   IF count # NULL /\ count = 0 THEN @ ELSE @ \o box]
             /\ ret' = [ret EXCEPT ![c] = "true"]
             /\ Goto(c, "return")
             /\ UNCHANGED stack
  /\ UNCHANGED <<doc, bytes, eofPos, xrefOffset, xrefMap, rootObjNum, pagesObjNum,
                 streamCtx, fallbackCalls>>

\* line 337 testing only pageBoxes.length, not ok
CollectReturn_partial(c) ==
  /\ pc[c] = "return" /\ CanRun(c)
  /\ IF stack[c] = <<>>
     THEN /\ IF pageBoxes[c] = <<>>
             THEN Goto(c, "fallback")
             ELSE Return(c, Structure(Len(pageBoxes[c]), pageBoxes[c]))
          /\ UNCHANGED <<stack, ret>>
     ELSE LET n == Len(stack[c])
              f == stack[c][n]
          IN IF ret[c] = "true" /\ f.next < Len(f.kids)
             THEN /\ stack' = [stack EXCEPT ![c][n].next = f.next + 1]
                  /\ Goto(c, "call")
                  /\ UNCHANGED ret
             ELSE /\ stack' = [stack EXCEPT ![c] = SubSeq(@, 1, n - 1)]
                  /\ Goto(c, "return")
                  /\ UNCHANGED ret
  /\ UNCHANGED <<doc, bytes, eofPos, xrefOffset, xrefMap, rootObjNum, pagesObjNum,
                 streamCtx, pageBoxes, fallbackCalls>>

\* an activation of collectPages has returned to its caller: the loop of
\* line 327 in the calling activation, or lines 336-346 for the outermost
CollectReturn(c) ==
  /\ pc[c] = "return" /\ CanRun(c)
  /\ IF stack[c] = <<>>
     THEN /\ IF ret[c] = "false" \/ pageBoxes[c] = <<>>
             THEN Goto(c, "fallback")
             ELSE Return(c, Structure(Len(pageBoxes[c]), pageBoxes[c]))
          /\ UNCHANGED <<stack, ret>>
     ELSE LET n == Len(stack[c])
              f == stack[c][n]
          IN IF ret[c] = "true" /\ f.next < Len(f.kids)
             THEN /\ stack' = [stack EXCEPT ![c][n].next = f.next + 1]
                  /\ Goto(c, "call")
                  /\ UNCHANGED ret
             ELSE /\ stack' = [stack EXCEPT ![c] = SubSeq(@, 1, n - 1)]
                  /\ Goto(c, "return")
                  /\ UNCHANGED ret
  /\ UNCHANGED <<doc, bytes, eofPos, xrefOffset, xrefMap, rootObjNum, pagesObjNum,
                 streamCtx, pageBoxes, fallbackCalls>>

\* lines 337 and 340
Fallback(c) ==
  /\ pc[c] = "fallback" /\ CanRun(c)
  /\ fallbackCalls' = [fallbackCalls EXCEPT ![c] = @ + 1]
  /\ Return(c, fallbackPageCountAndBoxes(bytes[c]))
  /\ UNCHANGED <<doc, bytes, eofPos, xrefOffset, xrefMap, rootObjNum, pagesObjNum,
                 streamCtx, pageBoxes, stack, ret>>

Next ==
  \/ \E c \in Calls : CheckLength(c)
  \/ \E c \in Calls : CheckHeader(c)
  \/ \E c \in Calls : LocateEof(c)
  \/ \E c \in Calls : LocateStartXref(c)
  \/ \E c \in Calls : ClassicXref(c)
  \/ \E c \in Calls : StreamXref(c)
  \/ \E c \in Calls : InflateResolve(c)
  \/ \E c \in Calls : InflateReject(c)
  \/ \E c \in Calls : StreamResume(c)
  \/ \E c \in Calls : ResolveRoot(c)
  \/ \E c \in Calls : CollectEnter(c)
  \/ \E c \in Calls : CollectReturn(c)
  \/ \E c \in Calls : Fallback(c)

Spec == Init /\ [][Next]_vars

\* the positions of a call
Labels ==
  {"length", "header", "eof", "startxref", "xref", "inflate", "resume", "root",
   "call", "return", "fallback", "done"}

\* the engine resumes a call that can run: the call moves to another
\* position, keeping the thread or giving it up
Resume(c) ==
  /\ pc[c] # "done" /\ CanRun(c)
  /\ pc' \in {[pc EXCEPT ![c] = l] : l \in Labels}
  /\ thread' \in {0, c}

\* one call on the documents that differ in their page tree, with
\* progress: the engine runs a call to its next await or to its end, and
\* the continuation of a settled promise is always run.  A step of
\* collectPages into a kid leaves pc and thread alone; the stack of the
\* engine bounds how many of them follow one another.
InitLive == InitCalls({1}, [{1} -> LiveDocs])
SpecLive == InitLive /\ [][Next]_vars /\ WF_<<pc, thread>>(\E c \in Calls : Resume(c))

\* one call, on the documents of Docs and on those larger than 512 KiB
InitFar == InitCalls({1}, [{1} -> Docs \cup FarDocs])

SpecFar == InitFar /\ [][Next]_vars

\* the same buffer parsed twice, the second call made when the first has
\* returned
InitTwice == InitCalls({1, 2}, {(1 :> d) @@ (2 :> d) : d \in Docs})

\* call 2 is made, and runs, only when call 1 has returned
Turn(c) == c = 1 \/ pc[1] = "done"

NextTwice ==
  \/ \E c \in Calls : Turn(c) /\ CheckLength(c)
  \/ \E c \in Calls : Turn(c) /\ CheckHeader(c)
  \/ \E c \in Calls : Turn(c) /\ LocateEof(c)
  \/ \E c \in Calls : Turn(c) /\ LocateStartXref(c)
  \/ \E c \in Calls : Turn(c) /\ ClassicXref(c)
  \/ \E c \in Calls : Turn(c) /\ StreamXref(c)
  \/ \E c \in Calls : Turn(c) /\ InflateResolve(c)
  \/ \E c \in Calls : Turn(c) /\ InflateReject(c)
  \/ \E c \in Calls : Turn(c) /\ StreamResume(c)
  \/ \E c \in Calls : Turn(c) /\ ResolveRoot(c)
  \/ \E c \in Calls : Turn(c) /\ CollectEnter(c)
  \/ \E c \in Calls : Turn(c) /\ CollectReturn(c)
  \/ \E c \in Calls : Turn(c) /\ Fallback(c)

SpecTwice == InitTwice /\ [][NextTwice]_vars

\* one call alone, or two calls in flight together on any two documents
InitConc ==
  \/ InitCalls({1}, [{1} -> ConcDocs])
  \/ InitCalls({1, 2}, [{1, 2} -> ConcDocs])

SpecConc == InitConc /\ [][Next]_vars

\* two calls in flight, on the two writings of the same objects
InitPair == InitCalls({1, 2}, DocPairs)

SpecPair == InitPair /\ [][Next]_vars

\* ---------------------------------------------------------------------
\* Claims
\* ---------------------------------------------------------------------

\* C1: a call on a buffer shorter than 100 bytes returns null, whatever
\* the bytes are
C1_ShortBufferIsNull ==
  \A c \in Calls :
    (pc[c] = "done" /\ Len(bytes[c]) < 100) => result[c] = NullResult

\* a complete file (header, xref, %%EOF) of fewer than 100 bytes was parsed
C1_Witness ==
  \E c \in Calls :
    /\ pc[c] = "done" /\ Len(bytes[c]) < 100
    /\ PDF_HEADER_test(bytes[c]) /\ findLastEof(bytes[c]) >= 0

\* the buffer begins with %PDF-<digits>.<digits>
LeadingSignature(b) ==
  /\ MatchAt(b, 0, str_PDF)
  /\ LET a == SkipWhile(b, 5, Digits)
     IN a > 5 /\ a < Len(b) /\ b[a + 1] = 46 /\ SkipWhile(b, a + 1, Digits) > a + 1

\* C2: a call on a buffer that does not begin with a %PDF-<major>.<minor>
\* signature returns null, whatever follows in the buffer
C2_NoLeadingSignatureIsNull ==
  \A c \in Calls :
    (pc[c] = "done" /\ ~LeadingSignature(bytes[c])) => result[c] = NullResult

\* the document was written so that locating the header and the trailer
\* fails: no signature in the first 20 bytes (none at all, or one that
\* starts at byte 13 or later), no %%EOF, no startxref keyword, or no
\* number after startxref
LocateFails(d) ==
  /\ d.kind = "pdf"
  /\ \/ d.header = "bad"
     \/ d.junk >= 13
     \/ d.tail \in {"noEof", "noStartxref", "noInt"}

\* the buffer holds a /Count N with 0 < N <= 50000
HasScannableCount(d) == \E n \in DOMAIN d.tree : d.tree[n].count \in 1..50000

\* C3: when locating the header and the trailer fails the call returns
\* null and never runs the /Count scan, also on a buffer that holds a
\* /Count N with 0 < N <= 50000
C3_LocateFailureIsNullWithoutFallback ==
  \A c \in Calls :
    LocateFails(doc[c]) =>
      /\ fallbackCalls[c] = 0
      /\ pc[c] \notin {"xref", "inflate", "resume", "root", "call", "return", "fallback"}
      /\ pc[c] = "done" => result[c] = NullResult

\* a file with /Count 5 and no startxref keyword was parsed to the end
C3_Witness ==
  \E c \in Calls :
    /\ pc[c] = "done" /\ doc[c].kind = "pdf" /\ doc[c].tail = "noStartxref"
    /\ HasScannableCount(doc[c])
    /\ IndexOf(bytes[c], key_Count) >= 0

\* C4: in every non-null result pageBoxes has exactly pageCount elements,
\* whether the result comes from the page-tree walk or from the /Count scan
C4_BoxesMatchCount ==
  \A c \in Calls :
    result[c].kind = "structure" => Len(result[c].pageBoxes) = result[c].pageCount

\* the /Count scan produced a result of five pages
C4_Witness ==
  \E c \in Calls :
    /\ pc[c] = "done" /\ fallbackCalls[c] = 1
    /\ result[c].kind = "structure" /\ result[c].pageCount = 5

\* Math.round(pt * 96 / 72) of a number of points held in units of 1/PtScale
RoundedPx(pt) == (2 * 96 * pt + 72 * PtScale) \div (2 * 72 * PtScale)

\* C5: every page box of a non-null result has a width and a height in
\* points that are strictly positive, and pixel sizes that are the point
\* sizes times 96/72, rounded
C5_BoxesArePositive ==
  \A c \in Calls :
    result[c].kind = "structure" =>
      \A i \in 1..Len(result[c].pageBoxes) :
        LET b == result[c].pageBoxes[i]
        IN /\ b.widthPt # NaN /\ b.widthPt > 0
           /\ b.heightPt # NaN /\ b.heightPt > 0
           /\ b.widthPx = RoundedPx(b.widthPt)
           /\ b.heightPx = RoundedPx(b.heightPt)

\* the file has one revision, ended by startxref, the offset and %%EOF; its
\* xref section lists the objects as in use and its /Root names the catalog
PlainTrailer(d) ==
  /\ d.tail = "ok" /\ d.gap = 0 /\ d.update = "none"
  /\ d.root = 1 /\ d.entries = "inUse"
  /\ d.announce = 0 /\ d.stray = "none" /\ d.xrefLead = 0
  /\ d.compressed = {} /\ d.length = "ok" /\ Len(d.w) = 3 /\ d.high = "none"
  /\ d.dict \in {"plain", "parms"}

\* the document is a well-formed file with a classic xref table, and its
\* page tree is a /Pages node with one page of 612 x 792 points
ClassicSinglePage(d) ==
  /\ d.kind = "pdf" /\ d.junk = 0 /\ d.header = "ok" /\ PlainTrailer(d)
  /\ d.xref = "table" /\ d.tree = TreeSingle /\ d.pagesRef = 2

\* C6: a well-formed classic-xref file with one page of 612 x 792 points
\* gives pageCount 1 and the one box 612 x 792 pt, 816 x 1056 px
C6_ClassicSinglePage ==
  \A c \in Calls :
    (pc[c] = "done" /\ ClassicSinglePage(doc[c])) =>
      result[c] = Structure(1, <<[widthPt |-> Pt(612), heightPt |-> Pt(792),
                                  widthPx |-> 816, heightPx |-> 1056]>>)

\* the file is well formed: signature at byte 0, xref table or Flate xref
\* stream, startxref and %%EOF
WellFormedFile(d) ==
  /\ d.kind = "pdf" /\ d.junk = 0 /\ d.header = "ok" /\ PlainTrailer(d)
  /\ d.xref = "table" \/ d.filter = "flate"

\* the catalog names the root of the tree, every kid is a later object of
\* the file that names the node as its parent (the nodes form a tree), and
\* every page has a MediaBox of positive width and height
TreeResolves(d) ==
  /\ d.pagesRef \in DOMAIN d.tree
  /\ \A n \in DOMAIN d.tree :
       /\ \A i \in 1..Len(d.tree[n].kids) :
            /\ d.tree[n].kids[i] \in DOMAIN d.tree
            /\ d.tree[d.tree[n].kids[i]].parent = n
            /\ d.tree[n].kids[i] > n
       /\ d.tree[n].type = "Page" => d.tree[n].pageBox # <<>>

\* the boxes of the pages under node n, depth first, kids left to right
RECURSIVE TreeBoxes(_, _)
TreeBoxes(tree, n) ==
  IF tree[n].type = "Page" THEN tree[n].pageBox
  ELSE Concat([i \in 1..Len(tree[n].kids) |-> TreeBoxes(tree, tree[n].kids[i])])

\* C7: for a well-formed file whose cross-reference is a stream with
\* /Filter /FlateDecode the call returns the same pageCount and pageBoxes as
\* for the classic-xref file with the same objects, offsets and /Root
C7_StreamEqualsClassic ==
  (/\ pc[1] = "done" /\ pc[2] = "done"
   /\ WellFormedFile(doc[2]) /\ doc[2].xref = "stream" /\ doc[2].filter = "flate") =>
    /\ result[1].kind = result[2].kind
    /\ result[1].pageCount = result[2].pageCount
    /\ result[1].pageBoxes = result[2].pageBoxes

\* C8: when every node of the page tree resolves and every page has a valid
\* MediaBox, pageBoxes is the pages' boxes in depth-first, left-to-right
\* /Kids order and pageCount is the number of pages (stated for files with
\* no further objects and no nested dictionary in the xref stream's)
C8_DepthFirstBoxes ==
  \A c \in Calls :
    (/\ pc[c] = "done" /\ WellFormedFile(doc[c]) /\ TreeResolves(doc[c])
     /\ doc[c].extra = 0 /\ doc[c].dict = "plain") =>
      LET boxes == TreeBoxes(doc[c].tree, doc[c].pagesRef)
      IN result[c] = Structure(Len(boxes), boxes)

\* C9: when a reference met during the page-tree walk has no entry in the
\* xref map, the call runs the /Count scan once and returns what the scan
\* returns: null, or as many boxes of 612 x 792 pt as the first /Count in
\* the buffer says; no box collected before the abort is returned
C9_AbortedWalkReturnsFallback ==
  \A c \in Calls :
    (pc[c] = "done" /\ ret[c] = "false") =>
      /\ fallbackCalls[c] = 1
      /\ result[c] = fallbackPageCountAndBoxes(bytes[c])
      /\ \A i \in 1..Len(result[c].pageBoxes) :
           result[c].pageBoxes[i] = [widthPt |-> Pt(612), heightPt |-> Pt(792),
                                     widthPx |-> 816, heightPx |-> 1056]

\* the walk had collected a page's box, then met a /Kids reference that is
\* not in the xref map, and the call returned five boxes
C9_Witness ==
  \E c \in Calls :
    /\ pc[c] = "done" /\ ret[c] = "false"
    /\ Len(pageBoxes[c]) = 1 /\ pageBoxes[c][1] = A4PageBox
    /\ result[c].kind = "structure" /\ result[c].pageCount = 5

\* a well-formed file whose catalog names a /Pages object that is not in
\* the file
UnreachablePages(d) == WellFormedFile(d) /\ d.pagesRef >= DocSize(d)

\* the numbers N of the /Count N entries of the file with 0 < N <= 50000
ScannableCounts(d) ==
  ({d.tree[n].count : n \in DOMAIN d.tree} \cup {d.outlines}) \cap (1..50000)

\* C10: for a file with valid header, %%EOF, xref and catalog whose /Pages
\* tree is unreachable and which holds a /Count N with 0 < N <= 50000, the
\* call returns pageCount N and N boxes of 612 x 792 pt, 816 x 1056 px
C10_UnreachablePagesGivesCount ==
  \A c \in Calls :
    (pc[c] = "done" /\ UnreachablePages(doc[c]) /\ ScannableCounts(doc[c]) # {}) =>
      /\ result[c].kind = "structure"
      /\ result[c].pageCount \in ScannableCounts(doc[c])
      /\ Len(result[c].pageBoxes) = result[c].pageCount
      /\ \A i \in 1..Len(result[c].pageBoxes) :
           result[c].pageBoxes[i] = LetterPageBox

\* a well-formed file whose catalog or whose /Kids name an object that is
\* not in the file
BrokenTree(d) ==
  /\ WellFormedFile(d)
  /\ \/ d.pagesRef >= DocSize(d)
     \/ \E n \in DOMAIN d.tree : \E i \in 1..Len(d.tree[n].kids) :
          d.tree[n].kids[i] >= DocSize(d)

\* C11: the /Count scan runs at most once and gives a result only for a
\* /Count N with 0 < N <= 50000; a file with a broken page tree whose
\* /Count is 0 or above 50000, or which has no /Count in its first 512 KiB
\* (none at all, or only after 512 KiB of spaces), gives null, while
\* /Count 5 just inside the first 512 KiB gives five boxes
C11_OutOfBoundCountIsNull ==
  \A c \in Calls :
    /\ fallbackCalls[c] <= 1
    /\ (pc[c] = "done" /\ BrokenTree(doc[c]) /\ doc[c].lead \in 1..(512 * 1024 - 200)) =>
         result[c] = Structure(5, [i \in 1..5 |-> LetterPageBox])
    /\ (fallbackCalls[c] = 1 /\ result[c].kind = "structure") =>
         result[c].pageCount \in 1..50000
    /\ (/\ pc[c] = "done" /\ BrokenTree(doc[c])
        /\ ScannableCounts(doc[c]) = {} \/ doc[c].lead >= 512 * 1024) =>
         result[c] = NullResult

\* the scan ran on a file with a missing kid and /Count 999999 and the call
\* returned null
C11_Witness ==
  \E c \in Calls :
    /\ pc[c] = "done" /\ fallbackCalls[c] = 1 /\ result[c] = NullResult
    /\ BrokenTree(doc[c]) /\ doc[c].tree[2].count = 999999

\* a well-formed file of few objects whose catalog is found, and in which
\* finding the pages fails: the catalog has no /Pages entry, the /Pages
\* object or a kid is not in the file, or no page has a MediaBox
ResolutionFails(d) ==
  /\ WellFormedFile(d) /\ d.extra = 0 /\ d.dict = "plain"
  /\ \/ d.pagesRef < 0
     \/ BrokenTree(d)
     \/ \A n \in DOMAIN d.tree : d.tree[n].box = <<>>

\* C12: once the catalog has been read through the xref map, every failure
\* to find the pages (no /Pages entry in the catalog, /Pages object or kid
\* not in the map, no MediaBox collected) makes the call run the /Count scan
\* and return what the scan returns
C12_ResolutionFailureRunsFallback ==
  \A c \in Calls :
    (pc[c] = "done" /\ ResolutionFails(doc[c])) =>
      /\ fallbackCalls[c] = 1
      /\ result[c] = fallbackPageCountAndBoxes(bytes[c])

\* C13: when the xref stream has /Filter /FlateDecode and inflating it
\* throws, the call does not reject: it runs the /Count scan and returns
\* what the scan returns
C13_InflateErrorRunsFallback ==
  \A c \in Calls :
    (/\ pc[c] = "done"
     /\ doc[c].kind = "pdf" /\ doc[c].junk = 0 /\ doc[c].header = "ok"
     /\ PlainTrailer(doc[c])
     /\ doc[c].xref = "stream" /\ doc[c].filter = "corrupt") =>
      /\ result[c].kind # "rejected"
      /\ fallbackCalls[c] = 1
      /\ result[c] = fallbackPageCountAndBoxes(bytes[c])

\* C14: for every buffer the promise of parsePdfStructure resolves, to a
\* structure or to null; it never rejects
C14_NeverRejects ==
  \A c \in Calls : result[c].kind \in {"pending", "null", "structure"}

ExpectedOf(d) ==
  IF d.kind = "tiny" \/ d.filter = "corrupt" THEN NullResult
  ELSE IF BrokenTree(d) THEN Structure(5, [i \in 1..5 |-> LetterPageBox])
  ELSE LET boxes == TreeBoxes(d.tree, d.pagesRef) IN Structure(Len(boxes), boxes)

\* C16: calls on different buffers that interleave at the inflate
\* suspension share no state: under every interleaving each call returns
\* what it returns when it runs alone
C16_InterleavedCallsAreIndependent ==
  \A c \in Calls : pc[c] = "done" => result[c] = ExpectedOf(doc[c])

\* two calls on different Flate xref-stream files were both suspended at
\* the inflate, and both have returned, with different results
C16_Witness ==
  /\ Calls = {1, 2} /\ pc[1] = "done" /\ pc[2] = "done"
  /\ doc[1] # doc[2]
  /\ doc[1].xref = "stream" /\ doc[2].xref = "stream"
  /\ result[1].kind = "structure" /\ result[2].kind = "structure"
  /\ result[1] # result[2]

\* the xref section of the file has no in-use entry, or the file has no
\* /Root entry, or its /Root names an object that is not in the file
NoUsableRoot(d) ==
  /\ d.kind = "pdf" /\ d.header = "ok" /\ d.junk = 0
  /\ d.tail = "ok" /\ d.gap = 0 /\ d.update = "none"
  /\ d.entries = "free" \/ d.root < 0 \/ d.root >= DocSize(d)

\* C17: an empty xref map, no /Root reference, or a /Root object number
\* without an entry in the map gives null, and the fallback scan is not run
C17_NoRootIsNullWithoutFallback ==
  \A c \in Calls :
    /\ (/\ pc[c] = "done"
        /\ \/ DOMAIN xrefMap[c] = {}
           \/ rootObjNum[c] = NULL
           \/ rootObjNum[c] \notin DOMAIN xrefMap[c])
         => (result[c] = NullResult /\ fallbackCalls[c] = 0)
    /\ (pc[c] = "done" /\ NoUsableRoot(doc[c]))
         => /\ result[c] = NullResult /\ fallbackCalls[c] = 0
            /\ \/ DOMAIN xrefMap[c] = {}
               \/ rootObjNum[c] = NULL
               \/ rootObjNum[c] \notin DOMAIN xrefMap[c]

\* a file whose /Root names an object the xref stream does not list, and
\* whose text holds /Count 5, has been parsed to null
C17_Witness ==
  \E c \in Calls :
    /\ pc[c] = "done" /\ result[c] = NullResult /\ fallbackCalls[c] = 0
    /\ doc[c].xref = "stream" /\ doc[c].root = 19
    /\ rootObjNum[c] = 19 /\ DOMAIN xrefMap[c] # {}
    /\ 5 \in ScannableCounts(doc[c])

\* C18: of several %%EOF markers only the last counts: the xref offset is
\* the integer after the startxref keyword nearest before the last %%EOF,
\* and the startxref/%%EOF pair of an earlier revision is not used
C18_LastEofIsAuthoritative ==
  \A c \in Calls :
    LET d == doc[c] IN
    (d.kind = "pdf" /\ d.update # "none") =>
      /\ pc[c] \notin {"length", "header", "eof"} =>
           /\ eofPos[c] = Len(bytes[c]) - 6
           /\ eofPos[c] > IndexOf(bytes[c], EOF_MARKER)
      /\ pc[c] \notin {"length", "header", "eof", "startxref"} =>
           /\ xrefOffset[c] = LastXrefPos(d)
           /\ d.update \in {"page", "catalog"} => xrefOffset[c] # XrefPos(d)
      /\ (pc[c] = "done" /\ d.update = "page") => result[c] = Structure(1, <<A4PageBox>>)
      /\ (pc[c] = "done" /\ d.update = "eof") => result[c] = Structure(1, <<LetterPageBox>>)

\* a Letter page rewritten as A4 by an incremental update was parsed: the
\* buffer holds two %%EOF markers and the result is the A4 page
C18_Witness ==
  \E c \in Calls :
    /\ pc[c] = "done" /\ doc[c].update = "page"
    /\ IndexOf(bytes[c], EOF_MARKER) \in 0..(eofPos[c] - 1)
    /\ xrefOffset[c] > XrefPos(doc[c])
    /\ result[c] = Structure(1, <<A4PageBox>>)

\* the positions before e at which a startxref keyword begins
KeywordsBefore(b, e) == {p \in 0..(e - 1) : MatchAt(b, p, STARTXREF_MARKER)}

\* a decimal integer follows the keyword at p, after white space, before e
IntegerFollows(b, p, e) ==
  LET j == SkipWhile(Slice(b, 0, e), p + Len(STARTXREF_MARKER), CrLfSp)
  IN j < e /\ b[j + 1] \in Digits

\* C19: an xref offset is found only when the startxref keyword nearest
\* before the last %%EOF lies within the 2048 bytes before it and is
\* followed by a decimal integer; a keyword that begins more than 2048
\* bytes before %%EOF, or one with no integer after it, gives null
C19_KeywordWithinWindow ==
  \A c \in Calls :
    LET ks == KeywordsBefore(bytes[c], eofPos[c])
        ok == /\ ks # {}
              /\ eofPos[c] - Max(ks) <= STARTXREF_WINDOW
              /\ IntegerFollows(bytes[c], Max(ks), eofPos[c])
    IN /\ xrefOffset[c] >= 0 => ok
       /\ (pc[c] = "done" /\ eofPos[c] >= 0 /\ ~ok) => result[c] = NullResult

\* the /Root of the trailer that follows the xref table startxref points to
TrailerRoot(d) ==
  LET r == IF d.update \in {"page", "catalog"} THEN UpdateRoot(d) ELSE d.root
  IN IF r < 0 THEN NULL ELSE r

\* C20: in the classic-xref branch the /Root object number used is the one
\* named by the trailer of the xref section startxref points to, whatever
\* the size of the table, and never a /Root of an earlier revision's
\* trailer or of other text in the scanned window
C20_RootOfOwnTrailer ==
  \A c \in Calls :
    (/\ doc[c].kind = "pdf" /\ doc[c].xref = "table"
     /\ \/ pc[c] \in {"root", "call", "return", "fallback"}
        \/ pc[c] = "done" /\ DOMAIN xrefMap[c] # {}) =>
      rootObjNum[c] = TrailerRoot(doc[c])

\* the call has parsed the classic xref table its startxref points to
TableParsed(c) ==
  /\ doc[c].kind = "pdf" /\ doc[c].xref = "table"
  /\ xrefOffset[c] >= 0
  /\ pc[c] \notin {"length", "header", "eof", "startxref", "xref"}

\* the objects the last xref table of the file lists as in use, with the
\* offsets it gives them
TableOffsets(d) ==
  IF d.entries = "free" THEN EmptyMap
  ELSE IF d.update \in {"page", "catalog"} THEN UpdateOffsets(d)
  ELSE DocOffsets(d)

\* C21: parseXrefTable maps firstObjNum + localIndex to the offset of
\* exactly the entries tagged n of each subsection; an entry tagged f is
\* not in the map and still advances the local index
C21_InUseEntriesOnly ==
  \A c \in Calls :
    (/\ TableParsed(c) /\ doc[c].announce = 0 /\ doc[c].stray = "none"
     /\ doc[c].extra <= MaxExtra) =>
      /\ xrefMap[c] = TableOffsets(doc[c])
      /\ 0 \notin DOMAIN xrefMap[c]

\* a table of two subsections was parsed in which object 1 is free and
\* the objects after it are in use
C21_Witness ==
  \E c \in Calls :
    /\ TableParsed(c) /\ doc[c].sections = 2 /\ doc[c].update = "catalog"
    /\ 1 \notin DOMAIN xrefMap[c]
    /\ 2 \in DOMAIN xrefMap[c] /\ xrefMap[c][2] = DocOffsets(doc[c])[2]
    /\ DocSize(doc[c]) + 1 \in DOMAIN xrefMap[c]

\* C22: parseXrefTable stops at the first line after the xref keyword line
\* that is not a subsection header: text after that point (the trailer,
\* lines shaped like a header and entries) adds nothing to the map, and
\* the pages are those the table gives
C22_StopsAfterTable ==
  \A c \in Calls :
    (TableParsed(c) /\ doc[c].announce = 0 /\ doc[c].extra <= MaxExtra) =>
      /\ xrefMap[c] = TableOffsets(doc[c])
      /\ (/\ pc[c] = "done" /\ doc[c].stray = "entries"
          /\ WellFormedFile([doc[c] EXCEPT !.stray = "none"]) /\ TreeResolves(doc[c])) =>
           LET boxes == TreeBoxes(doc[c].tree, doc[c].pagesRef)
           IN result[c] = Structure(Len(boxes), boxes)

\* where, counted from the offset startxref names, the entry of object n
\* begins in the last classic table of the file
EntryPos(d, n) ==
  LET size == IF d.update \in {"page", "catalog"} THEN UpdateSize(d) ELSE DocSize(d)
  IN d.xrefLead + Len(txt_xref)
     + (IF d.sections = 2
        THEN 2 + (IF n = 0 THEN 0
                  ELSE 20 + 2 + Len(DecStr(size - 1 + d.announce)) + 1 + 20 * (n - 1))
        ELSE Len(DecStr(size + d.announce)) + 1 + 20 * n)

\* the in-use entries of the table whose offset, generation and tag lie
\* in the first 4096 bytes from the offset startxref names
EntriesInWindow(d) ==
  [n \in {m \in DOMAIN TableOffsets(d) : EntryPos(d, m) + 18 <= 4096} |->
     TableOffsets(d)[n]]

\* C23: a truncated classic table (a subsection that announces more
\* entries than follow, or a table longer than the 4096-byte window) gives
\* the map of the complete in-use entries inside the window; an entry cut
\* by the end of the window is not inserted with a wrong offset
C23_TruncatedTableGivesCompleteEntries ==
  \A c \in Calls :
    (TableParsed(c) /\ doc[c].stray = "none") =>
      /\ xrefMap[c] = EntriesInWindow(doc[c])
      /\ \A n \in DOMAIN xrefMap[c] :
           n \in DOMAIN TableOffsets(doc[c]) /\ xrefMap[c][n] = TableOffsets(doc[c])[n]

\* a table of 207 entries was parsed: the map holds object 203, whose
\* entry ends inside the window, and not object 204, whose entry is cut
C23_Witness ==
  \E c \in Calls :
    /\ TableParsed(c) /\ doc[c].extra = ManyExtra /\ doc[c].xrefLead = 0
    /\ 203 \in DOMAIN xrefMap[c] /\ 204 \notin DOMAIN xrefMap[c]
    /\ 204 \in DOMAIN TableOffsets(doc[c])

\* the call has parsed the xref stream the last startxref names
StreamParsed(c) ==
  /\ doc[c].kind = "pdf" /\ doc[c].xref = "stream"
  /\ streamCtx[c] # <<>>
  /\ pc[c] \notin {"length", "header", "eof", "startxref", "xref", "inflate"}

\* the objects the last xref stream of the file gives a type 1 record,
\* with the low 32 bits of the offsets written in them
StreamOffsets(d) ==
  LET offs == IF d.update \in {"page", "catalog"}
              THEN UpdateOffsets(d) @@ (UpdateSize(d) :> UpdateXrefPos(d))
              ELSE DocOffsets(d) @@ (DocSize(d) :> XrefPos(d))
  IN IF d.entries = "free" THEN EmptyMap
     ELSE [n \in DOMAIN offs \ d.compressed |->
             IF d.high = "top" /\ n = LastTreeNum(d) + 1
             THEN (IF d.w[2] = 3 THEN 16777214 ELSE MaxOffset)
             ELSE offs[n]]

\* C24: the decoded data of an xref stream is read record by record, range
\* by range in the order of /Index (one range from 0 when /Index is
\* absent); the k-th record of a range maps firstObjNum + k to its second
\* field when its type is 1, and records of type 0 and 2 add nothing but
\* take up one record
C24_RecordsInIndexOrder ==
  \A c \in Calls : StreamParsed(c) => xrefMap[c] = StreamOffsets(doc[c])

\* three pages, /Index [3 4 0 3], the record of object 4 of type 2: the
\* map lacks object 4 and holds object 5 at its offset; the walk fails at
\* kid 4 and the call returns the fallback scan's three Letter pages
C24_Witness ==
  \E c \in Calls :
    /\ StreamParsed(c) /\ pc[c] = "done"
    /\ doc[c].index = "swapped" /\ doc[c].compressed = {4}
    /\ 4 \notin DOMAIN xrefMap[c]
    /\ 5 \in DOMAIN xrefMap[c] /\ xrefMap[c][5] = DocOffsets(doc[c])[5]
    /\ result[c] = Structure(3, <<LetterPageBox, LetterPageBox, LetterPageBox>>)

\* the call has read the object the last startxref of an xref-stream file
\* names
StreamRead(c) ==
  /\ doc[c].kind = "pdf" /\ doc[c].xref = "stream"
  /\ xrefOffset[c] = LastXrefPos(doc[c])
  /\ pc[c] \notin {"length", "header", "eof", "startxref", "xref"}

\* the last xref stream object of the file up to the >> that matches the
\* << of its dictionary
LastStreamDict(d) ==
  IF d.update \in {"page", "catalog"}
  THEN XrefStreamDictOf(d, UpdateSize(d),
         XrefRecordsOf(d, UpdateSize(d), UpdateOffsets(d), UpdateXrefPos(d)), UpdateRoot(d))
  ELSE XrefStreamDictOf(d, DocSize(d), XrefRecords(d), d.root)

\* C25: the dictionary text parseXrefStream reads its keys from runs to
\* the >> that matches the dictionary's <<, also when a nested dictionary
\* (/DecodeParms << ... >>) stands before some of the keys
C25_DictionaryToMatchingClose ==
  \A c \in Calls :
    (/\ StreamRead(c) /\ doc[c].filter # "corrupt" /\ doc[c].length = "ok"
     /\ Len(doc[c].w) = 3 /\ doc[c].dict \in {"plain", "parms"}) =>
      /\ streamCtx[c] # <<>>
      /\ streamCtx[c][1].dictStr = LastStreamDict(doc[c])

\* the xref stream lacks /W, has fewer than three widths, has no stream
\* keyword, declares a /Length that runs beyond its data, or holds data
\* that does not inflate
StreamDefect(d) ==
  \/ d.dict \in {"noW", "noStream"}
  \/ Len(d.w) < 3
  \/ d.length # "ok"
  \/ d.filter = "corrupt"

\* C26: parseXrefStream returns null and does not throw when /W is missing
\* or has fewer than three widths, when the stream bounds are bad (no
\* stream keyword, data that ends before the declared /Length, a /Length
\* past the end of the buffer), and when inflating fails
C26_StreamDefectGivesNull ==
  \A c \in Calls :
    (StreamRead(c) /\ StreamDefect(doc[c]) /\ pc[c] # "inflate") =>
      /\ streamCtx[c] = <<>>
      /\ result[c].kind # "rejected"
      /\ pc[c] = "done" => result[c] = NullResult

\* C27: a page whose /MediaBox has zero width or zero height adds no box,
\* as a page without /MediaBox: the walk goes on, the boxes of the other
\* pages are returned in order, and when no page gives a box the result
\* is the fallback scan's
C27_ZeroAreaBoxIsSkipped ==
  \A c \in Calls :
    (pc[c] = "done" /\ WellFormedFile(doc[c]) /\ doc[c].tree \in ZeroTrees) =>
      LET boxes == TreeBoxes(doc[c].tree, doc[c].pagesRef)
      IN result[c] = IF boxes = <<>> THEN fallbackPageCountAndBoxes(bytes[c])
                     ELSE Structure(Len(boxes), boxes)

\* of the pages [0 0 0 792], A4, [0 0 612 0] and 300 x 400 the call has
\* returned the second and the fourth
C27_Witness ==
  \E c \in Calls :
    /\ pc[c] = "done" /\ doc[c].tree = TreeZeroAmong
    /\ result[c] = Structure(2, <<A4PageBox, CardPageBox>>)
    /\ fallbackCalls[c] = 0

\* C28: the page-tree walk ends for every xref map and every object
\* graph, also one whose /Kids name the node itself or an ancestor: every
\* call of parsePdfStructure eventually returns
C28_EventuallyReturns ==
  <>(\A c \in Calls : pc[c] = "done" /\ result[c].kind \in {"null", "structure"})

\* the text of the object that begins a read window: the window up to its
\* first endobj keyword
OwnObject(objStr) ==
  LET end == IndexOf(objStr, <<101, 110, 100, 111, 98, 106>>)
  IN IF end < 0 THEN objStr ELSE Slice(objStr, 0, end + 6)

\* C29: what resolution reads for an object (/Pages of the catalog; /Kids,
\* /Count and /MediaBox of a node of the page tree) comes from the
\* object's own dictionary: a later object inside the 16384-byte window
\* read at the object's offset supplies none of them (/MediaBox is read
\* only for a node without kids whose /Count is not 0)
C29_FieldsFromOwnDictionary ==
  \A c \in Calls :
    WellFormedFile(doc[c]) =>
      /\ (pc[c] = "root" /\ rootObjNum[c] \in DOMAIN xrefMap[c]) =>
           LET rootStr == readObjectAt(bytes[c], xrefMap[c][rootObjNum[c]])
           IN parseDictGetRef(rootStr, key_Pages)
                = parseDictGetRef(OwnObject(rootStr), key_Pages)
      /\ (pc[c] = "call" /\ NextArg(c) \in DOMAIN xrefMap[c]) =>
           LET objStr == readObjectAt(bytes[c], xrefMap[c][NextArg(c)])
           IN /\ parseDictGetRefArray(objStr, key_Kids)
                   = parseDictGetRefArray(OwnObject(objStr), key_Kids)
              /\ parseDictGetNumber(objStr, key_Count)
                   = parseDictGetNumber(OwnObject(objStr), key_Count)
              /\ (/\ parseDictGetRefArray(objStr, key_Kids) = <<>>
                  /\ parseDictGetNumber(objStr, key_Count) \notin {0}) =>
                   parseMediaBox(objStr) = parseMediaBox(OwnObject(objStr))

\* the data of the xref stream the call has parsed, inflated when the
\* dictionary names the filter
DecodedData(c) ==
  IF streamCtx[c][1].filter THEN flateDecode(streamCtx[c][1].streamBytes)[1]
  ELSE streamCtx[c][1].streamBytes

\* the low 32 bits of the big-endian value of the n bytes of data after
\* position p, as <<high 16 bits, low 16 bits>>
BigEndianLow32(data, p, n) ==
  LET byte(j) == IF j <= n THEN data[p + n - j + 1] ELSE 0
  IN <<byte(4) * 256 + byte(3), byte(2) * 256 + byte(1)>>

\* C30: readIntBE(data, offset, w) is a non-negative integer: the
\* big-endian value of the w bytes at offset when w <= 4 and the bytes lie
\* inside data, and that value modulo 2^32 when w > 4, so that an offset
\* field wider than 4 bytes is stored without its high bytes
C30_ReadIntBEIsUnsignedLow32 ==
  \A c \in Calls :
    StreamParsed(c) =>
      LET data == DecodedData(c)
          w == streamCtx[c][1].w
          entryLen == w[1] + w[2] + w[3]
      IN /\ \A k \in 0..((Len(data) \div entryLen) - 1) :
              \A f \in {<<k * entryLen, w[1]>>, <<k * entryLen + w[1], w[2]>>} :
                LET v == readIntBE(data, f[1], f[2])
                IN /\ v[1] \in 0..65535 /\ v[2] \in 0..65535
                   /\ v = BigEndianLow32(data, f[1], f[2])
         /\ doc[c].high = "wide" => xrefMap[c] = StreamOffsets(doc[c])

\* an xref stream with /W [1 5 1] was parsed whose record of object 6
\* is 01 FF FF FF FF FE 00: its type reads 1 and its offset 65535 * 65536
\* + 65534, the low four bytes of the field
C30_Witness ==
  \E c \in Calls :
    /\ StreamParsed(c) /\ pc[c] = "done"
    /\ doc[c].high = "top" /\ doc[c].w = <<1, 5, 1>>
    /\ SubSeq(DecodedData(c), 6 * 7 + 1, 7 * 7) = <<1, 255, 255, 255, 255, 254, 0>>
    /\ readIntBE(DecodedData(c), 6 * 7, 1) = <<0, 1>>
    /\ readIntBE(DecodedData(c), 6 * 7 + 1, 5) = <<65535, 65534>>
    /\ 6 \in DOMAIN xrefMap[c]

====
